---- MODULE Spec2Model ----
(***************************************************************************)
(* cipher-agent-sdk: the persistent deposit book (lib/storage.js), the     *)
(* deposit / withdraw pipeline of the agent (lib/index.js) and the delayed *)
(* relayer queue (RelayerService).  Every async method is split at its     *)
(* await points: one action per synchronous stretch of code.               *)
(***************************************************************************)
EXTENDS Integers, Sequences, FiniteSets, TLC

\* Concurrent calls in flight inside one Node.js process (async call slots).
Tasks == {"t1", "t2"}

\* Bound: how many deposits (fresh deposit codes) a run creates.
MaxDeposits == 2

\* Bound: how many calls (storage calls, deposit() and withdraw()) a run starts.
MaxCalls == 4

\* The peers an agent knows.
MaxPeers == 1

\* Bound: how many withdraw requests a relayer is sent.
MaxItems == 2

\* Bound: how far the clock runs, in units of 30 s.
MaxTime == 3

\* Bound: how many HTTP requests a relayer receives.
MaxRequests == 4

\* Bound: rateLimit.requests the relayer is configured with.
RateRequests == 2

\* Bound: TREE_HEIGHT, the height of a chunk's Merkle tree (20 in the source).
TREE_HEIGHT == 2

\* Deposit amounts used by the calls (DEPOSIT_AMOUNT and one other value).
Amounts == {1, 2}

\* `amount = null` of findUnwithdrawnDeposit (the argument omitted).
NoAmount == 0

Codes == 1..MaxDeposits

\* Inodes of the file system holding deposits.json and deposits.json.tmp:
\* one per path plus one per writer holding a descriptor.
InodeIds == 1..(Cardinality(Tasks) + 2)

\* A path that does not exist / a task that holds no descriptor.
NoFile == 0

VARIABLES
  \* ---- file system under ~/.cipher -----------------------------------
  inode,        \* inode id -> [ok, recs]: ok = the bytes are a complete JSON array
  storageIno,   \* inode deposits.json names (NoFile: the path does not exist)
  tmpIno,       \* inode deposits.json.tmp names
  diskFault,    \* environment: reads of deposits.json currently fail (EIO, EACCES)
  \* ---- a DepositStorage call in flight, per task ------------------------
  st,           \* position inside the storage call
  call,         \* the call: [name, code, amount, ref]
  loaded,       \* its local `deposits` array
  fd,           \* descriptor writeFile holds on the temp file
  result,       \* what findUnwithdrawnDeposit returned
  \* ---- CipherAgent ---------------------------------------------------
  pc,           \* position of the task inside deposit() / withdraw()
  dep,          \* the `deposit` object a withdraw() selected
  deposits,     \* this.deposits, the RAM cache
  nextCode,     \* next fresh (secret, nullifier) pair
  accepted,     \* relayer side: deposits whose POST was answered 2xx
  outcome,      \* how the task's call ended
  \* ---- history -------------------------------------------------------
  added,        \* codes whose addDeposit returned successfully
  marked,       \* codes whose markAsWithdrawn saved and returned successfully
  faulted,      \* a read fault, a thrown storage error or a crash has happened
  overlapped,   \* two calls have been in flight at the same time
  premarked,    \* codes pre-marked by a withdraw that a crash then interrupted
  ncalls,       \* calls started so far
  \* ---- RelayerService ------------------------------------------------
  queue,        \* this.queue
  processing,   \* this.processing
  processTimer, \* loop whose sleep timer this.processTimer references
  loops,        \* processQueue invocations: [pc, item, ready, wake]
  now,          \* Date.now(), in units of 30 s
  nextId,       \* next queue id
  requestCounts,\* this.requestCounts: IP -> timestamps of its counted requests
  response,     \* the last POST /relayer/submit and the status it was answered with
  \* ---- history of the relayer ------------------------------------------
  reqLog,       \* IP -> timestamps of every request the rate limit admitted
  nreq,         \* requests received so far
  lastExec,     \* the last executeWithdraw that completed: [n, item, ok], n flips
  \* ---- MerkleTreeBuilder ----------------------------------------------
  trees,        \* this.trees: chunkId -> [loaded, leaves, tree, root]
  path,         \* what the last call returned, if it was getMerklePath
  \* ---- loadTree and where it reads from --------------------------------
  chain,        \* the leaves on chain, per chunk (append-only)
  cache,        \* ~/.cipher cache file chunk-N.json: the treeData saved last
  peerTree,     \* the treeData a known peer serves at GET /tree/N
  lastLoad,     \* history: the last loadTree that returned: [n, chunk, via, read]
  \* ---- DHTNode, one per agent -------------------------------------------
  dht,          \* node -> [id, socket]: this.id and whether the node listens
  buckets,      \* node -> this.buckets: bucket index -> the nodes of the k-bucket
  values,       \* node -> this.values: key -> stored value
  lookup,       \* node -> the iterativeFindNode call in progress, and its result
  pendingRequests, \* node -> this.pendingRequests: txId -> the request it completes
  requests,     \* txId -> the promise sendRequest returned and its timer
  nextTx,       \* the next txId crypto.randomBytes(8) returns: never one seen before
  op,           \* node -> the bootstrap, announce or findAgents call in progress
  bootstrapped, \* node -> bootstrap(peer) has returned
  announced,    \* node -> announce() calls that have returned
  found,        \* node -> what the last findAgents() returned
  \* ---- library functions called on their own ---------------------------
  probe,        \* a library function called on its own: what it was given and what it
                \* returned (for buildPoseidon: the promises it has returned)
  \* ---- lib/crypto.js -----------------------------------------------------
  poseidon,     \* let poseidon: the instance, or null
  initPromise,  \* let initPromise: the promise of buildPoseidon(), or null
  builds,       \* calls of buildPoseidon() so far
  getter,       \* task -> its getPoseidon() / initPoseidon() call: [pc, fn, got]
  \* ---- CipherAgent.start / stop -------------------------------------------
  isRunning,    \* this.isRunning
  mixing,       \* start() call -> its mixingLoop: [pc, wait, elapsed, maxRunTime]
  \* ---- MerkleTreeBuilder.updateTree, await by await -------------------------
  updating      \* caller -> its updateTree call: the locals it holds across an await

fsVars == <<inode, storageIno, tmpIno, diskFault>>
callVars == <<st, call, loaded, fd, result>>
agentVars == <<pc, dep, deposits, nextCode, accepted, outcome>>
histVars == <<added, marked, faulted, overlapped, premarked, ncalls>>
queueVars == <<queue, processing, processTimer, loops, nextId>>
httpVars == <<requestCounts, response, reqLog, nreq>>
relayerVars == <<queueVars, now, httpVars, lastExec>>
treeVars == <<trees, path>>
loadVars == <<chain, cache, peerTree, lastLoad>>
rpcVars == <<pendingRequests, requests, nextTx>>
discoveryVars == <<op, bootstrapped, announced, found>>
dhtVars == <<dht, buckets, values, lookup, rpcVars, discoveryVars>>
cryptoVars == <<poseidon, initPromise, builds, getter>>
mixVars == <<isRunning, mixing>>
libVars == <<probe, cryptoVars, mixVars, updating>>
p2pVars == <<treeVars, loadVars, dhtVars, libVars>>
outsideDht == <<treeVars, loadVars, fsVars, callVars, agentVars, histVars, relayerVars, libVars>>
outsideLib == <<fsVars, callVars, agentVars, histVars, relayerVars, treeVars, loadVars, dhtVars, mixVars, updating>>
outsideRelayer == <<fsVars, callVars, agentVars, histVars, p2pVars>>
outsideMix == <<fsVars, callVars, agentVars, histVars, relayerVars, treeVars, loadVars, dhtVars, probe, cryptoVars, updating>>
outsideUpdate == <<cache, peerTree, lastLoad, fsVars, callVars, agentVars, histVars, relayerVars, dhtVars, probe, cryptoVars, mixVars>>
vars == <<fsVars, callVars, agentVars, histVars, relayerVars, p2pVars>>

(***************************************************************************)
(* Deposit records and file contents                                       *)
(***************************************************************************)

\* A record of deposits.json.  txId, commitment and the two timestamps are
\* carried along by the code and never read by it; they are left out.
DepositRecord(code, amount) ==
  [code |-> code, amount |-> amount, withdrawn |-> FALSE, withdrawTxId |-> "none"]

\* `null` where a record is expected.
NoRecord == [code |-> 0, amount |-> 0, withdrawn |-> FALSE, withdrawTxId |-> "none"]

\* A file that holds a complete JSON array / a truncated or torn file.
Content(recs) == [ok |-> TRUE, recs |-> recs]
TornContent == [ok |-> FALSE, recs |-> <<>>]

RECURSIVE JsonSize(_)
\* Length of JSON.stringify(deposits): a withdrawn record carries two more fields.
JsonSize(recs) ==
  IF recs = <<>> THEN 0
  ELSE (IF Head(recs).withdrawn THEN 5 ELSE 4) + JsonSize(Tail(recs))

RECURSIVE ArrayFindFrom(_, _, _, _)
\* Array.prototype.find with the predicates of storage.js: first index >= i whose
\* record passes; 0 when none does.
ArrayFindFrom(recs, i, byAmount, amount) ==
  IF i > Len(recs) THEN 0
  ELSE IF ~recs[i].withdrawn /\ (~byAmount \/ recs[i].amount = amount) THEN i
  ELSE ArrayFindFrom(recs, i + 1, byAmount, amount)

RECURSIVE ArrayFindLastFrom(_, _, _, _)
ArrayFindLastFrom(recs, i, byAmount, amount) ==
  IF i < 1 THEN 0
  ELSE IF ~recs[i].withdrawn /\ (~byAmount \/ recs[i].amount = amount) THEN i
  ELSE ArrayFindLastFrom(recs, i - 1, byAmount, amount)

\* Mutant of findUnwithdrawnDeposit: scans from the newest record.
findUnwithdrawnDepositNewest(recs, amount) ==
  LET i == ArrayFindLastFrom(recs, Len(recs), amount # NoAmount, amount)
  IN  IF i = 0 THEN NoRecord ELSE recs[i]

\* DepositStorage.findUnwithdrawnDeposit, after the load.
findUnwithdrawnDeposit(recs, amount) ==
  LET i == IF amount # NoAmount
           THEN ArrayFindFrom(recs, 1, TRUE, amount)
           ELSE ArrayFindFrom(recs, 1, FALSE, amount)
  IN  IF i = 0 THEN NoRecord ELSE recs[i]

RECURSIVE IndexOfCode(_, _, _)
\* deposits.find(d => d.code === code): index of the first such record, 0 if none.
IndexOfCode(recs, i, code) ==
  IF i > Len(recs) THEN 0
  ELSE IF recs[i].code = code THEN i
  ELSE IndexOfCode(recs, i + 1, code)

\* DepositStorage.markAsWithdrawn, the mutation of the loaded array.
markAsWithdrawn(recs, code, ref) ==
  LET i == IndexOfCode(recs, 1, code)
  IN  IF i = 0 THEN recs
      ELSE [recs EXCEPT ![i].withdrawn = TRUE, ![i].withdrawTxId = ref]

\* DepositStorage.addDeposit, the push onto the loaded array.
addDeposit(recs, code, amount) == Append(recs, DepositRecord(code, amount))

\* DepositStorage.loadDeposits: what the read and JSON.parse yield; a failed
\* read or parse is caught and yields [].
loadDeposits(exists, fault, content) ==
  IF ~exists THEN <<>>
  ELSE IF fault \/ ~content.ok THEN <<>>
  ELSE content.recs

CodesOf(recs) == {recs[i].code : i \in 1..Len(recs)}
WithdrawnCodesOf(recs) == {recs[i].code : i \in {j \in 1..Len(recs) : recs[j].withdrawn}}

\* The records a reader of deposits.json gets right now.
Book == IF storageIno = NoFile \/ ~inode[storageIno].ok THEN <<>> ELSE inode[storageIno].recs

(***************************************************************************)
(* File system helpers                                                     *)
(***************************************************************************)

Referenced(i, sIno, tIno, fds) ==
  i = sIno \/ i = tIno \/ \E t \in Tasks : fds[t] = i

\* An inode nobody names any more is released.
Release(ino, sIno, tIno, fds) ==
  [i \in InodeIds |-> IF Referenced(i, sIno, tIno, fds) THEN ino[i] ELSE TornContent]

FreeInode == CHOOSE i \in InodeIds :
  /\ ~Referenced(i, storageIno, tmpIno, fd)
  /\ \A j \in InodeIds : ~Referenced(j, storageIno, tmpIno, fd) => i <= j

\* The `deposit` object of withdraw(): a RAM-cache entry (ram = its index) or an
\* object built from a deposit-book record (depositCode set).
\* probes: the GET /relayer/status requests selectRelayer has sent for this call.
NoDeposit == [code |-> 0, amount |-> 0, ram |-> 0, depositCode |-> FALSE,
              withdrawn |-> FALSE, original |-> FALSE, premark |-> FALSE, probes |-> 0]

(***************************************************************************)
(* A DepositStorage call                                                   *)
(***************************************************************************)

NoCall == [name |-> "none", code |-> 0, amount |-> 0, ref |-> "none"]
AddCall(code, amount) == [name |-> "add", code |-> code, amount |-> amount, ref |-> "none"]
FindCall(amount) == [name |-> "find", code |-> 0, amount |-> amount, ref |-> "none"]
MarkCall(code, ref) == [name |-> "mark", code |-> code, amount |-> 0, ref |-> ref]

\* The synchronous code that follows `await this.loadDeposits()` in each method:
\* where the call stands next, its array, and (find) its return value.
AfterLoad(c, recs) ==
  IF c.name = "add" THEN
    [st |-> "open", loaded |-> addDeposit(recs, c.code, c.amount), result |-> NoRecord]
  ELSE IF c.name = "find" THEN
    [st |-> "ret", loaded |-> <<>>, result |-> findUnwithdrawnDeposit(recs, c.amount)]
  ELSE IF IndexOfCode(recs, 1, c.code) # 0 THEN
    [st |-> "open", loaded |-> markAsWithdrawn(recs, c.code, c.ref), result |-> NoRecord]
  ELSE
    [st |-> "ret", loaded |-> <<>>, result |-> NoRecord]

\* Calling a storage method: loadDeposits runs up to its first await.  When the
\* file does not exist it returns [] at once, else the read is pending.
BeginCall(t, c) ==
  /\ call' = [call EXCEPT ![t] = c]
  /\ IF storageIno = NoFile
     THEN LET a == AfterLoad(c, loadDeposits(FALSE, FALSE, TornContent))
          IN  /\ st' = [st EXCEPT ![t] = a.st]
              /\ loaded' = [loaded EXCEPT ![t] = a.loaded]
              /\ result' = [result EXCEPT ![t] = a.result]
     ELSE /\ st' = [st EXCEPT ![t] = "read"]
          /\ loaded' = [loaded EXCEPT ![t] = <<>>]
          /\ result' = [result EXCEPT ![t] = NoRecord]

\* A call starts while another one is still in flight.
Overlap(t) == overlapped \/ \E u \in Tasks \ {t} : pc[u] # "idle"

\* loadDeposits: fs.promises.readFile + JSON.parse complete.
ReadFile(t) ==
  /\ st[t] = "read"
  /\ LET a == AfterLoad(call[t], loadDeposits(TRUE, diskFault, inode[storageIno]))
     IN  /\ st' = [st EXCEPT ![t] = a.st]
         /\ loaded' = [loaded EXCEPT ![t] = a.loaded]
         /\ result' = [result EXCEPT ![t] = a.result]
  /\ faulted' = (faulted \/ diskFault)
  /\ UNCHANGED <<inode, storageIno, tmpIno, diskFault, call, fd, agentVars,
                 added, marked, overlapped, premarked, ncalls, relayerVars, p2pVars>>

\* saveDeposits: writeFile opens deposits.json.tmp (O_CREAT | O_TRUNC).
saveOpen(t) ==
  /\ st[t] = "open"
  /\ LET i == IF tmpIno = NoFile THEN FreeInode ELSE tmpIno
     IN  /\ tmpIno' = i
         /\ inode' = [inode EXCEPT ![i] = TornContent]
         /\ fd' = [fd EXCEPT ![t] = i]
  /\ st' = [st EXCEPT ![t] = "write"]
  /\ UNCHANGED <<storageIno, diskFault, call, loaded, result, agentVars, histVars,
                 relayerVars, p2pVars>>

\* What a write of `recs` at offset 0 leaves in a file that holds `old`: bytes
\* another writer put behind the new end stay there.
Overwrite(old, recs) ==
  IF old.ok /\ JsonSize(old.recs) > JsonSize(recs) THEN TornContent ELSE Content(recs)

\* saveDeposits: writeFile writes JSON.stringify(deposits) and closes.
saveWrite(t) ==
  /\ st[t] = "write"
  /\ LET ino == [inode EXCEPT ![fd[t]] = Overwrite(inode[fd[t]], loaded[t])]
         fds == [fd EXCEPT ![t] = NoFile]
     IN  /\ inode' = Release(ino, storageIno, tmpIno, fds)
         /\ fd' = fds
  /\ st' = [st EXCEPT ![t] = "rename"]
  /\ UNCHANGED <<storageIno, tmpIno, diskFault, call, loaded, result, agentVars,
                 histVars, relayerVars, p2pVars>>

\* saveDeposits: fs.promises.rename(tempFile, storageFile); ENOENT when another
\* save has already renamed the temp file away, which saveDeposits rethrows.
saveRename(t) ==
  /\ st[t] = "rename"
  /\ IF tmpIno = NoFile
     THEN /\ st' = [st EXCEPT ![t] = "err"]
          /\ faulted' = TRUE
          /\ UNCHANGED <<inode, storageIno, tmpIno>>
     ELSE /\ st' = [st EXCEPT ![t] = "saved"]
          /\ storageIno' = tmpIno
          /\ tmpIno' = NoFile
          /\ inode' = Release(inode, tmpIno, NoFile, fd)
          /\ faulted' = faulted
  /\ loaded' = [loaded EXCEPT ![t] = <<>>]
  /\ UNCHANGED <<diskFault, call, fd, result, agentVars, added, marked, overlapped,
                 premarked, ncalls, relayerVars, p2pVars>>

\* st: "none" no call; "read" readFile pending; "open", "write", "rename" the steps
\* of saveDeposits still to run; "saved" returned after a save; "ret" returned
\* without one; "err" saveDeposits threw.
\* The four steps of a storage call that run off the event loop.
StorageStep(t) == ReadFile(t) \/ saveOpen(t) \/ saveWrite(t) \/ saveRename(t)

\* The call is over: its slot is cleared.
EndCall(t) ==
  /\ st' = [st EXCEPT ![t] = "none"]
  /\ call' = [call EXCEPT ![t] = NoCall]
  /\ loaded' = [loaded EXCEPT ![t] = <<>>]
  /\ result' = [result EXCEPT ![t] = NoRecord]
  /\ fd' = fd

(***************************************************************************)
(* Direct use of a DepositStorage (the storage test, any other caller)     *)
(***************************************************************************)

ApiAdd(t, amount) ==
  /\ pc[t] = "idle"
  /\ ncalls < MaxCalls
  /\ nextCode <= MaxDeposits
  /\ BeginCall(t, AddCall(nextCode, amount))
  /\ nextCode' = nextCode + 1
  /\ pc' = [pc EXCEPT ![t] = "api"]
  /\ overlapped' = Overlap(t)
  /\ ncalls' = ncalls + 1
  /\ UNCHANGED <<fsVars, fd, dep, deposits, accepted, outcome, added, marked, faulted,
                 premarked, relayerVars, p2pVars>>

ApiFind(t, amount) ==
  /\ pc[t] = "idle"
  /\ ncalls < MaxCalls
  /\ BeginCall(t, FindCall(amount))
  /\ pc' = [pc EXCEPT ![t] = "api"]
  /\ overlapped' = Overlap(t)
  /\ ncalls' = ncalls + 1
  /\ UNCHANGED <<fsVars, fd, dep, deposits, nextCode, accepted, outcome, added, marked,
                 faulted, premarked, relayerVars, p2pVars>>

ApiMark(t, code, ref) ==
  /\ pc[t] = "idle"
  /\ ncalls < MaxCalls
  /\ code < nextCode
  /\ BeginCall(t, MarkCall(code, ref))
  /\ pc' = [pc EXCEPT ![t] = "api"]
  /\ overlapped' = Overlap(t)
  /\ ncalls' = ncalls + 1
  /\ UNCHANGED <<fsVars, fd, dep, deposits, nextCode, accepted, outcome, added, marked,
                 faulted, premarked, relayerVars, p2pVars>>

\* The caller's `await storage.method(...)` resumes (or throws).
ApiReturn(t) ==
  /\ pc[t] = "api"
  /\ st[t] \in {"ret", "saved", "err"}
  /\ added' = IF st[t] = "saved" /\ call[t].name = "add"
              THEN added \cup {call[t].code} ELSE added
  /\ marked' = IF st[t] = "saved" /\ call[t].name = "mark"
               THEN marked \cup {call[t].code} ELSE marked
  /\ EndCall(t)
  /\ pc' = [pc EXCEPT ![t] = "idle"]
  /\ UNCHANGED <<fsVars, dep, deposits, nextCode, accepted, outcome, faulted, overlapped,
                 premarked, ncalls, relayerVars, p2pVars>>

(***************************************************************************)
(* CipherAgent.deposit                                                     *)
(***************************************************************************)

\* A deposit code and the (secret, nullifier) pair it wraps are identified by one
\* number: storage.js compares codes as opaque strings and withdraw() only needs
\* the pair back from the code.

\* deposit(amount) is called: secret and nullifier are drawn, the proof, the
\* contract status and the deposit transaction are awaited.
Deposit(t, amount) ==
  /\ pc[t] = "idle"
  /\ ncalls < MaxCalls
  /\ nextCode <= MaxDeposits
  /\ pc' = [pc EXCEPT ![t] = "d_submit"]
  /\ dep' = [dep EXCEPT ![t] = [NoDeposit EXCEPT !.code = nextCode, !.amount = amount]]
  /\ nextCode' = nextCode + 1
  /\ outcome' = [outcome EXCEPT ![t] = "none"]
  /\ overlapped' = Overlap(t)
  /\ ncalls' = ncalls + 1
  /\ UNCHANGED <<fsVars, callVars, deposits, accepted, added, marked, faulted, premarked,
                 relayerVars, p2pVars>>

\* generateDepositProof, getContractStatus or sendDepositTransaction throws.
DepositFails(t) ==
  /\ pc[t] = "d_submit"
  /\ pc' = [pc EXCEPT ![t] = "idle"]
  /\ dep' = [dep EXCEPT ![t] = NoDeposit]
  /\ outcome' = [outcome EXCEPT ![t] = "error"]
  /\ UNCHANGED <<fsVars, callVars, deposits, nextCode, accepted, histVars, relayerVars, p2pVars>>

\* sendDepositTransaction returned a txId: the record is pushed onto this.deposits
\* (no depositCode, withdrawn unset) and storage.addDeposit is called.
DepositSubmitted(t) ==
  /\ pc[t] = "d_submit"
  /\ deposits' = Append(deposits, [nullifier |-> dep[t].code, amount |-> dep[t].amount,
                                   withdrawn |-> FALSE])
  /\ BeginCall(t, AddCall(dep[t].code, dep[t].amount))
  /\ pc' = [pc EXCEPT ![t] = "d_add"]
  /\ UNCHANGED <<fsVars, fd, dep, nextCode, accepted, outcome, histVars, relayerVars, p2pVars>>

\* `await this.storage.addDeposit(...)` resumes: deposit() returns, or rethrows
\* what saveDeposits threw.
DepositStored(t) ==
  /\ pc[t] = "d_add"
  /\ st[t] \in {"saved", "err"}
  /\ outcome' = [outcome EXCEPT ![t] = IF st[t] = "saved" THEN "ok" ELSE "error"]
  /\ added' = IF st[t] = "saved" THEN added \cup {call[t].code} ELSE added
  /\ EndCall(t)
  /\ pc' = [pc EXCEPT ![t] = "idle"]
  /\ dep' = [dep EXCEPT ![t] = NoDeposit]
  /\ UNCHANGED <<fsVars, deposits, nextCode, accepted, marked, faulted, overlapped,
                 premarked, ncalls, relayerVars, p2pVars>>

(***************************************************************************)
(* CipherAgent.withdraw                                                    *)
(***************************************************************************)

RECURSIVE RamFindFrom(_, _, _)
\* this.deposits.find(d => d.amount === amount && !d.withdrawn): index, 0 if none.
RamFindFrom(ram, i, amount) ==
  IF i > Len(ram) THEN 0
  ELSE IF ram[i].amount = amount /\ ~ram[i].withdrawn THEN i
  ELSE RamFindFrom(ram, i + 1, amount)

\* withdraw(recipient, amount) is called: the RAM cache is searched; on a miss
\* storage.findUnwithdrawnDeposit(amount) is called.
Withdraw(t, amount) ==
  /\ pc[t] = "idle"
  /\ ncalls < MaxCalls
  /\ LET i == RamFindFrom(deposits, 1, amount)
     IN  IF i # 0
         THEN /\ dep' = [dep EXCEPT ![t] = [NoDeposit EXCEPT !.code = deposits[i].nullifier,
                                                           !.amount = amount, !.ram = i]]
              /\ pc' = [pc EXCEPT ![t] = "w_tree"]
              /\ UNCHANGED <<st, call, loaded, result>>
         ELSE /\ BeginCall(t, FindCall(amount))
              /\ pc' = [pc EXCEPT ![t] = "w_find"]
              /\ dep' = dep
  /\ outcome' = [outcome EXCEPT ![t] = "none"]
  /\ overlapped' = Overlap(t)
  /\ ncalls' = ncalls + 1
  /\ UNCHANGED <<fsVars, fd, deposits, nextCode, accepted, added, marked, faulted,
                 premarked, relayerVars, p2pVars>>

\* `await this.storage.findUnwithdrawnDeposit(amount)` resumes: null throws
\* "No matching deposit found"; a record is decoded into the `deposit` object.
WithdrawFound(t) ==
  /\ pc[t] = "w_find"
  /\ st[t] = "ret"
  /\ IF result[t] = NoRecord
     THEN /\ pc' = [pc EXCEPT ![t] = "idle"]
          /\ outcome' = [outcome EXCEPT ![t] = "nomatch"]
          /\ dep' = dep
     ELSE /\ pc' = [pc EXCEPT ![t] = "w_tree"]
          /\ dep' = [dep EXCEPT ![t] = [NoDeposit EXCEPT !.code = result[t].code,
                                                       !.amount = result[t].amount,
                                                       !.depositCode = TRUE]]
          /\ outcome' = outcome
  /\ EndCall(t)
  /\ UNCHANGED <<fsVars, deposits, nextCode, accepted, histVars, relayerVars, p2pVars>>

\* loadTree, the leaf lookup or generateWithdrawProof throws.
WithdrawProofFails(t) ==
  /\ pc[t] = "w_tree"
  /\ pc' = [pc EXCEPT ![t] = "idle"]
  /\ outcome' = [outcome EXCEPT ![t] = "error"]
  /\ dep' = [dep EXCEPT ![t] = NoDeposit]
  /\ UNCHANGED <<fsVars, callVars, deposits, nextCode, accepted, histVars, relayerVars, p2pVars>>

\* selectRelayer() with this.p2p.peers holding the given number of peers, as the
\* requests it sends: one GET /relayer/status to each peer, none without peers.
selectRelayer(peers) == peers

\* Tree, path and proof are done and selectRelayer has returned, with the given
\* number of peers known.  originalWithdrawnState is saved, deposit.withdrawn is
\* set; with a depositCode the deposit book is pre-marked, without one the POST
\* is issued at once.
WithdrawPreMark(t, peers) ==
  /\ pc[t] = "w_tree"
  /\ IF dep[t].depositCode
     THEN /\ dep' = [dep EXCEPT ![t].original = dep[t].withdrawn, ![t].withdrawn = TRUE,
                                ![t].probes = selectRelayer(peers)]
          /\ deposits' = deposits
          /\ BeginCall(t, MarkCall(dep[t].code, "PENDING"))
          /\ pc' = [pc EXCEPT ![t] = "w_premark"]
     ELSE /\ dep' = [dep EXCEPT ![t].original = deposits[dep[t].ram].withdrawn,
                                ![t].probes = selectRelayer(peers)]
          /\ deposits' = [deposits EXCEPT ![dep[t].ram].withdrawn = TRUE]
          /\ pc' = [pc EXCEPT ![t] = "w_post"]
          /\ UNCHANGED <<st, call, loaded, result>>
  /\ UNCHANGED <<fsVars, fd, nextCode, accepted, outcome, histVars, relayerVars, p2pVars>>

\* `await this.storage.markAsWithdrawn(code, 'PENDING')` resumes and fetch() sends
\* POST /relayer/submit; a throwing saveDeposits ends withdraw() instead.
WithdrawPost(t) ==
  /\ pc[t] = "w_premark"
  /\ st[t] \in {"saved", "ret", "err"}
  /\ IF st[t] = "err"
     THEN /\ pc' = [pc EXCEPT ![t] = "idle"]
          /\ outcome' = [outcome EXCEPT ![t] = "error"]
          /\ dep' = [dep EXCEPT ![t] = NoDeposit]
     ELSE /\ pc' = [pc EXCEPT ![t] = "w_post"]
          /\ dep' = [dep EXCEPT ![t].premark = (st[t] = "saved")]
          /\ outcome' = outcome
  /\ marked' = IF st[t] = "saved" THEN marked \cup {call[t].code} ELSE marked
  /\ EndCall(t)
  /\ UNCHANGED <<fsVars, deposits, nextCode, accepted, added, faulted, overlapped,
                 premarked, ncalls, relayerVars, p2pVars>>

\* The relayer answers 2xx: the queue id is stored; with a depositCode the book
\* record's reference is updated by a second markAsWithdrawn.
RelayerAccepts(t) ==
  /\ pc[t] = "w_post"
  /\ accepted' = accepted \cup {dep[t].code}
  /\ IF dep[t].depositCode
     THEN /\ BeginCall(t, MarkCall(dep[t].code, "QUEUED"))
          /\ pc' = [pc EXCEPT ![t] = "w_final"]
          /\ UNCHANGED <<dep, outcome>>
     ELSE /\ pc' = [pc EXCEPT ![t] = "idle"]
          /\ outcome' = [outcome EXCEPT ![t] = "ok"]
          /\ dep' = [dep EXCEPT ![t] = NoDeposit]
          /\ UNCHANGED <<st, call, loaded, result>>
  /\ UNCHANGED <<fsVars, fd, deposits, nextCode, histVars, relayerVars, p2pVars>>

\* What the `catch (fetchErr)` block does to this.deposits.  Its first statement,
\* clearTimeout(timeoutId), names a `const` declared inside the try block, which
\* is out of scope in the catch block: it throws a ReferenceError, and the
\* assignment deposit.withdrawn = originalWithdrawnState after it never runs.
\* The deposit book is not touched either (a TODO in the code).
catchFetchErr(ram, d) == ram

\* The POST fails: network error, the 30 s abort, or a non-2xx answer.
RelayerFails(t) ==
  /\ pc[t] = "w_post"
  /\ deposits' = catchFetchErr(deposits, dep[t])
  /\ pc' = [pc EXCEPT ![t] = "idle"]
  /\ outcome' = [outcome EXCEPT ![t] = "postfail"]
  /\ dep' = [dep EXCEPT ![t] = NoDeposit]
  /\ UNCHANGED <<fsVars, callVars, nextCode, accepted, histVars, relayerVars, p2pVars>>

\* `await this.storage.markAsWithdrawn(code, queueId)` resumes: withdraw() returns
\* success, or, if saveDeposits threw, ends in the catch block.
WithdrawDone(t) ==
  /\ pc[t] = "w_final"
  /\ st[t] \in {"saved", "ret", "err"}
  /\ outcome' = [outcome EXCEPT ![t] = IF st[t] = "err" THEN "error" ELSE "ok"]
  /\ marked' = IF st[t] = "saved" THEN marked \cup {call[t].code} ELSE marked
  /\ EndCall(t)
  /\ pc' = [pc EXCEPT ![t] = "idle"]
  /\ dep' = [dep EXCEPT ![t] = NoDeposit]
  /\ UNCHANGED <<fsVars, deposits, nextCode, accepted, added, faulted, overlapped,
                 premarked, ncalls, relayerVars, p2pVars>>

\* pc: "idle" no call; "d_submit" deposit() awaits the chain; "d_add" it awaits
\* addDeposit; "w_find" withdraw() awaits findUnwithdrawnDeposit; "w_tree" it awaits
\* tree, proof and relayer selection; "w_premark" it awaits the pre-mark; "w_post"
\* the POST is in flight; "w_final" it awaits the second markAsWithdrawn.
InStorageCall(t) == pc[t] \in {"d_add", "w_find", "w_premark", "w_final"}

(***************************************************************************)
(* RelayerService: the delay queue and its processor                       *)
(***************************************************************************)

\* processQueue invocations that can exist at once.
LoopIds == {"p1", "p2"}

\* this.processTimer = null.
NoTimer == "none"

\* DEFAULT_DELAY / 2, DEFAULT_DELAY and the retry delay of 60000 ms, in units of 30 s.
MinDelay == 1
MaxDelay == 2
RetryDelay == 2

\* rateLimit.window of 60000 ms, in units of 30 s.
RateWindow == 2

\* Source addresses of requests (req.socket.remoteAddress).
IPs == {"ip1", "ip2"}

\* Largest amount accepted, 1_000_000_000_000, in units of 10^6 (1 USDC), and
\* largest chunkId accepted.
MaxAmount == 1000000
MaxChunkId == 1000

(***************************************************************************)
(* Request bodies.  A JSON value is described by what the validation reads *)
(* of it: its typeof, and for a proof which properties it has and which of *)
(* them are truthy.                                                        *)
(***************************************************************************)

ProofFields == {"pi_a", "pi_b", "pi_c", "protocol", "curve"}
FormattedFields == {"proofA", "proofB", "proofC", "publicSignals"}

JsProof(type, truthy, falsy) == [type |-> type, truthy |-> truthy, falsy |-> falsy]
JsString(type, len, base58) == [type |-> type, len |-> len, base58 |-> base58]
JsNumber(type, int, val) == [type |-> type, int |-> int, val |-> val]

\* The proof object snarkjs produces / the one generateWithdrawProof returns.
Groth16Proof == JsProof("object", ProofFields, {})
FormattedProof == JsProof("object", FormattedFields, {})

Proofs ==
  {JsProof("undefined", {}, {}), JsProof("string", {}, {}), Groth16Proof, FormattedProof}
    \cup {JsProof("object", ProofFields \ {f}, {}) : f \in ProofFields}
    \cup {JsProof("object", ProofFields \ {f}, {f}) : f \in ProofFields}

Recipients ==
  {JsString("undefined", 0, FALSE), JsString("number", 0, FALSE), JsString("string", 0, TRUE),
   JsString("string", 31, TRUE), JsString("string", 32, TRUE), JsString("string", 44, TRUE),
   JsString("string", 45, TRUE), JsString("string", 40, FALSE)}

AmountValues ==
  {JsNumber("undefined", FALSE, 0), JsNumber("string", FALSE, 1), JsNumber("number", FALSE, 1),
   JsNumber("number", TRUE, -1), JsNumber("number", TRUE, 0), JsNumber("number", TRUE, 1),
   JsNumber("number", TRUE, MaxAmount), JsNumber("number", TRUE, MaxAmount + 1)}

ChunkIds ==
  {JsNumber("undefined", FALSE, 0), JsNumber("null", FALSE, 0), JsNumber("string", FALSE, 0),
   JsNumber("number", FALSE, 0), JsNumber("number", TRUE, -1), JsNumber("number", TRUE, 0),
   JsNumber("number", TRUE, MaxChunkId), JsNumber("number", TRUE, MaxChunkId + 1)}

JsonBody(proof, recipient, amount, chunkId) ==
  [kind |-> "json", proof |-> proof, recipient |-> recipient, amount |-> amount,
   chunkId |-> chunkId]

Bodies ==
  {JsonBody(p, r, a, c) : p \in Proofs, r \in Recipients, a \in AmountValues, c \in ChunkIds}

ValidBody ==
  JsonBody(Groth16Proof, JsString("string", 44, TRUE), JsNumber("number", TRUE, 1),
           JsNumber("number", TRUE, 0))

\* A body over the size limit and one JSON.parse rejects.
OtherBody(kind) ==
  [kind |-> kind, proof |-> JsProof("undefined", {}, {}),
   recipient |-> JsString("undefined", 0, FALSE), amount |-> JsNumber("undefined", FALSE, 0),
   chunkId |-> JsNumber("undefined", FALSE, 0)]

\* The body withdraw() posts: JSON.stringify({proof, recipient: recipient.toBase58(),
\* amount, chunkId: deposit.chunkId}) with the proof of generateWithdrawProof.
WithdrawBody(amount, chunkId) ==
  JsonBody(FormattedProof, JsString("string", 44, TRUE), JsNumber("number", TRUE, amount),
           JsNumber("number", TRUE, chunkId))

NoResponse == [ip |-> "none", body |-> OtherBody("none"), status |-> 0]

\* `!v` of JavaScript for the values above.
Falsy(v) == v.type \in {"undefined", "null"}
FalsyString(v) == v.type = "undefined" \/ (v.type = "string" /\ v.len = 0)
FalsyNumber(v) == v.type \in {"undefined", "null"} \/ (v.type = "number" /\ v.int /\ v.val = 0)

Invalid(msg) == [valid |-> FALSE, error |-> msg]

\* _validateWithdrawRequest without the upper limits on amount and chunkId.
validateWithdrawRequestNoLimits(proof, recipient, amount, chunkId) ==
  IF Falsy(proof) \/ FalsyString(recipient) \/ FalsyNumber(amount) \/ chunkId.type = "undefined"
  THEN Invalid("Missing required fields")
  ELSE IF proof.type # "object" THEN Invalid("Invalid proof format")
  ELSE IF \E f \in ProofFields : f \notin proof.truthy THEN Invalid("Incomplete proof structure")
  ELSE IF recipient.type # "string" \/ recipient.len < 32 \/ recipient.len > 44
  THEN Invalid("Invalid recipient address")
  ELSE IF ~recipient.base58 THEN Invalid("Invalid base58 in recipient")
  ELSE IF amount.type # "number" \/ ~amount.int THEN Invalid("Amount must be an integer")
  ELSE IF amount.val <= 0 THEN Invalid("Amount out of valid range")
  ELSE IF chunkId.type # "number" \/ ~chunkId.int THEN Invalid("ChunkId must be an integer")
  ELSE IF chunkId.val < 0 THEN Invalid("ChunkId out of valid range")
  ELSE [valid |-> TRUE, error |-> "none"]

\* RelayerService._validateWithdrawRequest.
validateWithdrawRequest(proof, recipient, amount, chunkId) ==
  IF Falsy(proof) \/ FalsyString(recipient) \/ FalsyNumber(amount) \/ chunkId.type = "undefined"
  THEN Invalid("Missing required fields")
  ELSE IF proof.type # "object" THEN Invalid("Invalid proof format")
  ELSE IF \E f \in ProofFields : f \notin proof.truthy THEN Invalid("Incomplete proof structure")
  ELSE IF recipient.type # "string" \/ recipient.len < 32 \/ recipient.len > 44
  THEN Invalid("Invalid recipient address")
  ELSE IF ~recipient.base58 THEN Invalid("Invalid base58 in recipient")
  ELSE IF amount.type # "number" \/ ~amount.int THEN Invalid("Amount must be an integer")
  ELSE IF amount.val <= 0 \/ amount.val > MaxAmount THEN Invalid("Amount out of valid range")
  ELSE IF chunkId.type # "number" \/ ~chunkId.int THEN Invalid("ChunkId must be an integer")
  ELSE IF chunkId.val < 0 \/ chunkId.val > MaxChunkId THEN Invalid("ChunkId out of valid range")
  ELSE [valid |-> TRUE, error |-> "none"]

\* pc: "free" no invocation; "sleep" awaiting its setTimeout; "exec" awaiting
\* agent.executeWithdraw(item); ready: the rest of its readyItems.
FreeLoop == [pc |-> "free", item |-> 0, ready |-> <<>>, wake |-> 0]

RECURSIVE InsertByExecuteAt(_, _)
InsertByExecuteAt(sorted, it) ==
  IF sorted = <<>> THEN <<it>>
  ELSE IF it.executeAt < Head(sorted).executeAt THEN <<it>> \o sorted
  ELSE <<Head(sorted)>> \o InsertByExecuteAt(Tail(sorted), it)

RECURSIVE SortByExecuteAt(_)
\* this.queue.sort((a, b) => a.executeAt - b.executeAt): stable, in place.
SortByExecuteAt(q) ==
  IF q = <<>> THEN <<>>
  ELSE InsertByExecuteAt(SortByExecuteAt(SubSeq(q, 1, Len(q) - 1)), q[Len(q)])

RECURSIVE IdsOf(_)
IdsOf(q) == IF q = <<>> THEN <<>> ELSE <<Head(q).id>> \o IdsOf(Tail(q))

ReadyAt(it) == now >= it.executeAt

\* processQueue from its `while` test to its next await, run by invocation l on
\* queue q with this.processing = p: it leaves the loop, goes to sleep until the
\* earliest executeAt, or calls executeWithdraw on the first ready item.
processQueue(l, q, p) ==
  IF p /\ q # <<>>
  THEN LET readyItems == SelectSeq(q, ReadyAt)
       IN  IF readyItems = <<>>
           THEN /\ queue' = SortByExecuteAt(q)
                /\ loops' = [loops EXCEPT ![l] =
                     [pc |-> "sleep", item |-> 0, ready |-> <<>>,
                      wake |-> SortByExecuteAt(q)[1].executeAt]]
                /\ processTimer' = l
                /\ processing' = p
           ELSE /\ queue' = q
                /\ loops' = [loops EXCEPT ![l] =
                     [pc |-> "exec", item |-> readyItems[1].id,
                      ready |-> Tail(IdsOf(readyItems)), wake |-> 0]]
                /\ processTimer' = processTimer
                /\ processing' = p
  ELSE /\ queue' = q
       /\ loops' = [loops EXCEPT ![l] = FreeLoop]
       /\ processTimer' = processTimer
       /\ processing' = FALSE

\* A startProcessing that leaves the processor idle.
startProcessingIdle(l, q) == processQueue(l, q, FALSE)

\* startProcessing, as handleSubmit calls it when this.processing is false.
startProcessing(l, q) == processQueue(l, q, TRUE)

\* _checkRateLimit: the counted timestamps of ip still inside the window.
validTimestamps(ip) ==
  LET InWindow(ts) == ts > now - RateWindow
  IN  SelectSeq(requestCounts[ip], InWindow)

\* _checkRateLimit with `>` for `>=`.
checkRateLimitOffByOne(ip) == ~(Len(validTimestamps(ip)) > RateRequests)

\* _checkRateLimit(ip): FALSE when the limit is exceeded.
checkRateLimit(ip) == ~(Len(validTimestamps(ip)) >= RateRequests)

\* POST /relayer/submit from ip with the given body (taken to arrive in one
\* piece): rate limit, body size, JSON.parse, validation, then the entry is
\* pushed with executeAt = now + randomDelay() and the processor started if idle.
handleSubmit(ip, body, delay) ==
  /\ nreq < MaxRequests
  /\ nreq' = nreq + 1
  /\ UNCHANGED <<now, lastExec, outsideRelayer>>
  /\ IF ~checkRateLimit(ip)
     THEN /\ response' = [ip |-> ip, body |-> body, status |-> 429]
          /\ UNCHANGED <<requestCounts, reqLog, queueVars>>
     ELSE /\ requestCounts' = [requestCounts EXCEPT ![ip] = Append(validTimestamps(ip), now)]
          /\ reqLog' = [reqLog EXCEPT ![ip] = Append(@, now)]
          /\ IF body.kind = "toolarge"
             THEN /\ response' = [ip |-> ip, body |-> body, status |-> 413]
                  /\ UNCHANGED queueVars
             ELSE IF body.kind = "unparseable"
             THEN /\ response' = [ip |-> ip, body |-> body, status |-> 500]
                  /\ UNCHANGED queueVars
             ELSE IF ~validateWithdrawRequest(body.proof, body.recipient,
                                              body.amount, body.chunkId).valid
             THEN /\ response' = [ip |-> ip, body |-> body, status |-> 400]
                  /\ UNCHANGED queueVars
             ELSE /\ nextId <= MaxItems
                  /\ nextId' = nextId + 1
                  /\ response' = [ip |-> ip, body |-> body, status |-> 200]
                  /\ LET q == Append(queue, [id |-> nextId, executeAt |-> now + delay])
                     IN  IF ~processing
                         THEN \E l \in LoopIds :
                                /\ loops[l].pc = "free"
                                /\ l = CHOOSE k \in LoopIds : loops[k].pc = "free"
                                /\ startProcessing(l, q)
                         ELSE /\ queue' = q
                              /\ UNCHANGED <<processing, processTimer, loops>>

\* The setTimeout of a sleeping invocation fires; the loop tests `while` again.
TimerFires(l) ==
  /\ loops[l].pc = "sleep"
  /\ now >= loops[l].wake
  /\ processQueue(l, queue, processing)
  /\ UNCHANGED <<now, nextId, httpVars, lastExec, outsideRelayer>>

\* The `for (const item of readyItems)` loop moves on: the next ready item is
\* executed, or the `while` test runs again.
NextReady(l, q) ==
  IF loops[l].ready # <<>>
  THEN /\ queue' = q
       /\ loops' = [loops EXCEPT ![l].item = Head(loops[l].ready),
                                 ![l].ready = Tail(loops[l].ready)]
       /\ UNCHANGED <<processing, processTimer>>
  ELSE processQueue(l, q, processing)

\* agent.executeWithdraw(item) resolved: the entry is filtered out of the queue.
ExecSucceeds(l) ==
  /\ loops[l].pc = "exec"
  /\ LET NotItem(it) == it.id # loops[l].item
     IN  NextReady(l, SelectSeq(queue, NotItem))
  /\ lastExec' = [n |-> 1 - lastExec.n, item |-> loops[l].item, ok |-> TRUE]
  /\ UNCHANGED <<now, nextId, httpVars, outsideRelayer>>

\* The catch block of the per-item try: the entry that failed at time t is dropped.
retryLaterDrops(q, id, t) ==
  LET Other(it) == it.id # id
  IN  SelectSeq(q, Other)

\* The catch block of the per-item try: item.executeAt = Date.now() + 60000.  The
\* item object is shared with the queue if it is still queued.
retryLater(q, id, t) ==
  [i \in 1..Len(q) |->
     IF q[i].id = id THEN [q[i] EXCEPT !.executeAt = t + RetryDelay] ELSE q[i]]

\* agent.executeWithdraw(item) threw.
ExecFails(l) ==
  /\ loops[l].pc = "exec"
  /\ NextReady(l, retryLater(queue, loops[l].item, now))
  /\ lastExec' = [n |-> 1 - lastExec.n, item |-> loops[l].item, ok |-> FALSE]
  /\ UNCHANGED <<now, nextId, httpVars, outsideRelayer>>

\* RelayerService.stop(): processing = false and clearTimeout(this.processTimer);
\* an invocation sleeping on that timer never resumes.
stop ==
  /\ processing' = FALSE
  /\ loops' = [l \in LoopIds |->
                 IF l = processTimer /\ loops[l].pc = "sleep" THEN FreeLoop ELSE loops[l]]
  /\ UNCHANGED <<queue, processTimer, now, nextId, httpVars, lastExec, outsideRelayer>>

\* Time passes.
Tick ==
  /\ now < MaxTime
  /\ now' = now + 1
  /\ UNCHANGED <<queueVars, httpVars, lastExec, outsideRelayer>>

NextRelayer ==
  \/ \E d \in MinDelay..MaxDelay : handleSubmit("ip1", ValidBody, d)
  \/ \E l \in LoopIds : TimerFires(l)
  \/ \E l \in LoopIds : ExecSucceeds(l)
  \/ \E l \in LoopIds : ExecFails(l)
  \/ stop
  \/ Tick

(***************************************************************************)
(* MerkleTreeBuilder: the dense tree array of one chunk                    *)
(***************************************************************************)

\* 2^TREE_HEIGHT leaves; the array holds 2^(TREE_HEIGHT+1) - 1 nodes, leaves
\* first, then level by level, the root last.  Indices start at 0 as in the code.
LEAVES_CAPACITY == 2 ^ TREE_HEIGHT
treeSize == 2 ^ (TREE_HEIGHT + 1) - 1
ZERO == 0

Chunks == {0}

\* Commitments found on chain.
LeafValues == {0, 1, 2}

\* Poseidon on two field elements: a pairing without collisions that never
\* yields ZERO.
hash(left, right) == ((left + right) * (left + right + 1)) \div 2 + right + 1

RECURSIVE ZeroHash(_)
ZeroHash(k) == IF k = 0 THEN hash(ZERO, ZERO) ELSE hash(ZeroHash(k - 1), ZeroHash(k - 1))

\* The table of pre-computed hashes of empty subtrees: ZERO_HASHES[0] is the
\* hash of two ZERO leaves.
ZERO_HASHES == [k \in 0..(TREE_HEIGHT - 1) |-> ZeroHash(k)]

NoTree == [loaded |-> FALSE, leaves |-> <<>>, tree |-> [k \in 0..(treeSize - 1) |-> ZERO],
           root |-> ZERO]

\* BigInt.prototype.toString and BigInt(string): the decimal digits of a value.
toString(v) == [digits |-> v]
BigInt(str) == str.digits

NoPath == [ok |-> FALSE, chunk |-> 0, leafIndex |-> 0, pathElements |-> <<>>,
           pathIndices |-> <<>>, root |-> toString(ZERO)]

RECURSIVE buildLevels(_, _, _, _)
\* Step 2 of buildTree: the parents of one level are computed from the level
\* below, level after level.
buildLevels(tree, level, nodeOffset, currentLevelNodeCount) ==
  IF level >= TREE_HEIGHT THEN tree
  ELSE LET parentLevelOffset == nodeOffset + currentLevelNodeCount
           Left(i) == tree[nodeOffset + i]
           Right(i) ==
             IF nodeOffset + i + 1 < nodeOffset + currentLevelNodeCount
                  /\ tree[nodeOffset + i + 1] # ZERO
             THEN tree[nodeOffset + i + 1]
             ELSE IF level = 0 THEN ZERO ELSE ZERO_HASHES[level - 1]
           next == [k \in DOMAIN tree |->
                      IF k >= parentLevelOffset
                           /\ k < parentLevelOffset + currentLevelNodeCount \div 2
                      THEN hash(Left(2 * (k - parentLevelOffset)),
                                Right(2 * (k - parentLevelOffset)))
                      ELSE tree[k]]
       IN  buildLevels(next, level + 1, parentLevelOffset, currentLevelNodeCount \div 2)

\* buildTree(chunkId, currentLeaves) on the stored treeData: the new treeData,
\* or the old one and thrown when there are too many leaves.
buildTree(treeData, currentLeaves) ==
  IF Len(currentLeaves) > LEAVES_CAPACITY
  THEN [data |-> treeData, thrown |-> TRUE]
  ELSE LET filled == [k \in 0..(treeSize - 1) |->
                        IF k < Len(currentLeaves) THEN currentLeaves[k + 1] ELSE ZERO]
           tree == buildLevels(filled, 0, 0, LEAVES_CAPACITY)
       IN  [data |-> [loaded |-> TRUE, leaves |-> currentLeaves, tree |-> tree,
                      root |-> tree[treeSize - 1]],
            thrown |-> FALSE]

RECURSIVE updatePathForgetsLeft(_, _, _, _)
\* updatePath that takes the empty-subtree value for a left sibling.
updatePathForgetsLeft(tree, level, currentIndex, currentLevelOffset) ==
  IF level >= TREE_HEIGHT THEN tree
  ELSE LET levelNodeCount == 2 ^ (TREE_HEIGHT - level)
           parentLevelOffset == currentLevelOffset + levelNodeCount
           empty == IF level = 0 THEN ZERO ELSE ZERO_HASHES[level - 1]
           isRight == currentIndex % 2 = 1
           cur == tree[currentLevelOffset + currentIndex]
           parent == IF isRight THEN hash(empty, cur) ELSE hash(cur, empty)
       IN  updatePathForgetsLeft(
             [tree EXCEPT ![parentLevelOffset + currentIndex \div 2] = parent],
             level + 1, currentIndex \div 2, parentLevelOffset)

RECURSIVE updatePath(_, _, _, _)
\* The inner loop of updateTree: the hashes from one leaf up to the root.
updatePath(tree, level, currentIndex, currentLevelOffset) ==
  IF level >= TREE_HEIGHT THEN tree
  ELSE LET levelNodeCount == 2 ^ (TREE_HEIGHT - level)
           parentLevelOffset == currentLevelOffset + levelNodeCount
           parentIndexInTree == parentLevelOffset + currentIndex \div 2
           isRight == currentIndex % 2 = 1
           siblingIndexInLevel == IF isRight THEN currentIndex - 1 ELSE currentIndex + 1
           siblingIndexInTree == currentLevelOffset + siblingIndexInLevel
           currentIndexInTree == currentLevelOffset + currentIndex
           left == IF isRight THEN tree[siblingIndexInTree] ELSE tree[currentIndexInTree]
           right == IF isRight THEN tree[currentIndexInTree]
                    ELSE IF siblingIndexInLevel < levelNodeCount /\ tree[siblingIndexInTree] # ZERO
                    THEN tree[siblingIndexInTree]
                    ELSE IF level = 0 THEN ZERO ELSE ZERO_HASHES[level - 1]
       IN  updatePath([tree EXCEPT ![parentIndexInTree] = hash(left, right)],
                      level + 1, currentIndex \div 2, parentLevelOffset)

RECURSIVE insertLeaves(_, _, _)
\* The outer loop of updateTree from leaf i on; the array is changed in place, so
\* what was inserted before a throw stays.
insertLeaves(tree, newLeaves, i) ==
  IF i >= Len(newLeaves) THEN [tree |-> tree, thrown |-> FALSE]
  ELSE IF i >= LEAVES_CAPACITY THEN [tree |-> tree, thrown |-> TRUE]
  ELSE insertLeaves(updatePath([tree EXCEPT ![i] = newLeaves[i + 1]], 0, i, 0),
                    newLeaves, i + 1)

\* updateTree(chunkId, newLeaves) on the stored treeData.
updateTree(treeData, newLeaves) ==
  IF ~treeData.loaded THEN buildTree(treeData, newLeaves)
  ELSE IF Len(newLeaves) = Len(treeData.leaves) THEN [data |-> treeData, thrown |-> FALSE]
  ELSE IF Len(newLeaves) < Len(treeData.leaves) THEN buildTree(treeData, newLeaves)
  ELSE LET ins == insertLeaves(treeData.tree, newLeaves, Len(treeData.leaves))
       IN  IF ins.thrown
           THEN [data |-> [treeData EXCEPT !.tree = ins.tree], thrown |-> TRUE]
           ELSE [data |-> [loaded |-> TRUE, leaves |-> newLeaves, tree |-> ins.tree,
                           root |-> ins.tree[treeSize - 1]],
                 thrown |-> FALSE]

RECURSIVE pathLevelsNoBits(_, _, _, _)
\* pathLevels that reports every node as a left child.
pathLevelsNoBits(tree, level, currentIndex, levelOffset) ==
  IF level >= TREE_HEIGHT THEN <<>>
  ELSE LET siblingIndex == IF currentIndex % 2 = 1 THEN currentIndex - 1 ELSE currentIndex + 1
       IN  <<[element |-> toString(tree[levelOffset + siblingIndex]), index |-> 0]>>
             \o pathLevelsNoBits(tree, level + 1, currentIndex \div 2,
                                 levelOffset + 2 ^ (TREE_HEIGHT - level))

RECURSIVE pathLevels(_, _, _, _)
\* The loop of getMerklePath: sibling and side of the node at every level.
pathLevels(tree, level, currentIndex, levelOffset) ==
  IF level >= TREE_HEIGHT THEN <<>>
  ELSE LET isRight == currentIndex % 2 = 1
           siblingIndex == IF isRight THEN currentIndex - 1 ELSE currentIndex + 1
           levelStart == levelOffset
           levelSize == 2 ^ (TREE_HEIGHT - level)
           siblingNodeIndex == levelStart + siblingIndex
           sibling ==
             IF level = 0
             THEN IF siblingIndex >= 0 /\ siblingIndex < LEAVES_CAPACITY
                  THEN tree[siblingIndex] ELSE ZERO
             ELSE IF siblingNodeIndex >= levelStart /\ siblingNodeIndex < levelOffset + levelSize
                  THEN tree[siblingNodeIndex] ELSE ZERO_HASHES[level - 1]
       IN  <<[element |-> toString(sibling), index |-> IF isRight THEN 1 ELSE 0]>>
             \o pathLevels(tree, level + 1, currentIndex \div 2, levelOffset + levelSize)

\* getMerklePath(chunkId, leafIndex) on the stored treeData.
getMerklePath(c, treeData, leafIndex) ==
  IF ~treeData.loaded THEN NoPath
  ELSE LET levels == pathLevels(treeData.tree, 0, leafIndex, 0)
           top == treeData.tree[treeSize - 1]
       IN  [ok |-> TRUE, chunk |-> c, leafIndex |-> leafIndex,
            pathElements |-> [l \in 1..TREE_HEIGHT |-> levels[l].element],
            pathIndices |-> [l \in 1..TREE_HEIGHT |-> levels[l].index],
            root |-> toString(IF top # ZERO THEN top ELSE ZERO_HASHES[TREE_HEIGHT - 1])]

\* updateTree is called with the stored leaves and one more (a full build when
\* the chunk has no tree yet).
UpdateTree(c, leaf) ==
  /\ Len(trees[c].leaves) <= LEAVES_CAPACITY
  /\ trees' = [trees EXCEPT ![c] = updateTree(@, Append(trees[c].leaves, leaf)).data]
  /\ path' = NoPath
  /\ UNCHANGED <<loadVars, fsVars, callVars, agentVars, histVars, relayerVars, dhtVars, libVars>>

\* buildTree is called with the given leaves.
BuildTree(c, leaves) ==
  /\ trees' = [trees EXCEPT ![c] = buildTree(@, leaves).data]
  /\ path' = NoPath
  /\ UNCHANGED <<loadVars, fsVars, callVars, agentVars, histVars, relayerVars, dhtVars, libVars>>

\* getMerklePath is called for a leaf of a loaded tree.
GetMerklePath(c, leafIndex) ==
  /\ trees[c].loaded
  /\ path' = getMerklePath(c, trees[c], leafIndex)
  /\ UNCHANGED <<trees, loadVars, fsVars, callVars, agentVars, histVars, relayerVars, dhtVars, libVars>>

\* The leaf sequences a caller can pass.
LeafSeqs == UNION {[1..n -> LeafValues \ {ZERO}] : n \in 0..LEAVES_CAPACITY}

\* updateTree is called with any leaf sequence, whatever the engine stores.
UpdateTreeWith(c, newLeaves) ==
  /\ trees' = [trees EXCEPT ![c] = updateTree(@, newLeaves).data]
  /\ probe' = [fn |-> "updateTree", chunk |-> c, stored |-> trees[c], newLeaves |-> newLeaves]
  /\ path' = NoPath
  /\ UNCHANGED <<loadVars, fsVars, callVars, agentVars, histVars, relayerVars, dhtVars,
                 cryptoVars, mixVars, updating>>

NextRebuild == \E c \in Chunks, newLeaves \in LeafSeqs : UpdateTreeWith(c, newLeaves)

NextTree ==
  \/ \E c \in Chunks, leaf \in LeafValues : UpdateTree(c, leaf)
  \/ \E c \in Chunks, leaf \in LeafValues : BuildTree(c, <<leaf>>)
  \/ \E c \in Chunks, i \in 0..(LEAVES_CAPACITY - 1) : GetMerklePath(c, i)

(***************************************************************************)
(* updateTree, one await at a time                                         *)
(***************************************************************************)

\* Who calls loadTree: the refresh timer of startTreeUpdates and a withdraw.
Updaters == {"refresh", "withdraw"}

NoUpdate == [pc |-> "idle", chunk |-> 0, newLeaves |-> <<>>, i |-> 0, level |-> 0,
             currentIndex |-> 0, currentLevelOffset |-> 0, left |-> ZERO, right |-> ZERO]

\* One pass of the inner loop up to its await: left and right as they are
\* read from the array.
readPair(tree, level, currentIndex, currentLevelOffset) ==
  LET levelNodeCount == 2 ^ (TREE_HEIGHT - level)
      isRight == currentIndex % 2 = 1
      siblingIndexInLevel == IF isRight THEN currentIndex - 1 ELSE currentIndex + 1
      siblingIndexInTree == currentLevelOffset + siblingIndexInLevel
      currentIndexInTree == currentLevelOffset + currentIndex
  IN  [left |-> IF isRight THEN tree[siblingIndexInTree] ELSE tree[currentIndexInTree],
       right |-> IF isRight THEN tree[currentIndexInTree]
                 ELSE IF siblingIndexInLevel < levelNodeCount /\ tree[siblingIndexInTree] # ZERO
                 THEN tree[siblingIndexInTree]
                 ELSE IF level = 0 THEN ZERO ELSE ZERO_HASHES[level - 1]]

\* The outer loop takes leaf i: it is written into the array and the inner
\* loop runs up to its first await.
takeLeaf(up, tree, i) ==
  LET written == [tree EXCEPT ![i] = up.newLeaves[i + 1]]
      pair == readPair(written, 0, i, 0)
  IN  [tree |-> written,
       up |-> [up EXCEPT !.pc = "hash", !.i = i, !.level = 0, !.currentIndex = i,
                         !.currentLevelOffset = 0, !.left = pair.left, !.right = pair.right]]

\* loadTree found more leaves on chain than the replica holds and calls
\* updateTree, which runs up to its first await.  A chunk without a replica
\* gets a full build, made on an array of its own.
updateTreeCall(u, c) ==
  /\ updating[u].pc = "idle"
  /\ Len(chain[c]) > Len(trees[c].leaves)
  /\ IF ~trees[c].loaded
       THEN /\ trees' = [trees EXCEPT ![c] = buildTree(@, chain[c]).data]
            /\ UNCHANGED updating
       ELSE LET taken == takeLeaf([NoUpdate EXCEPT !.chunk = c, !.newLeaves = chain[c]],
                                  trees[c].tree, Len(trees[c].leaves))
            IN  /\ trees' = [trees EXCEPT ![c].tree = taken.tree]
                /\ updating' = [updating EXCEPT ![u] = taken.up]
  /\ UNCHANGED <<path, chain, outsideUpdate>>

\* `await this.poseidon([left, right])` resumes: the parent is written, and the
\* call runs on to its next await or, after the last leaf, stores the treeData
\* and returns.
updateTreeResume(u) ==
  /\ updating[u].pc = "hash"
  /\ LET up == updating[u]
         c == up.chunk
         levelNodeCount == 2 ^ (TREE_HEIGHT - up.level)
         parentLevelOffset == up.currentLevelOffset + levelNodeCount
         parentIndexInTree == parentLevelOffset + up.currentIndex \div 2
         tree == [trees[c].tree EXCEPT ![parentIndexInTree] = hash(up.left, up.right)]
     IN  IF up.level + 1 < TREE_HEIGHT
         THEN LET pair == readPair(tree, up.level + 1, up.currentIndex \div 2, parentLevelOffset)
              IN  /\ trees' = [trees EXCEPT ![c].tree = tree]
                  /\ updating' = [updating EXCEPT ![u] =
                       [up EXCEPT !.level = @ + 1, !.currentIndex = @ \div 2,
                                  !.currentLevelOffset = parentLevelOffset,
                                  !.left = pair.left, !.right = pair.right]]
         ELSE IF up.i + 1 < Len(up.newLeaves)
         THEN LET taken == takeLeaf(up, tree, up.i + 1)
              IN  /\ trees' = [trees EXCEPT ![c].tree = taken.tree]
                  /\ updating' = [updating EXCEPT ![u] = taken.up]
         ELSE /\ trees' = [trees EXCEPT ![c] = [loaded |-> TRUE, leaves |-> up.newLeaves,
                                                tree |-> tree, root |-> tree[treeSize - 1]]]
              /\ updating' = [updating EXCEPT ![u] = NoUpdate]
  /\ UNCHANGED <<path, chain, outsideUpdate>>

(***************************************************************************)
(* CipherAgent.loadTree: memory, disk cache, peers, chain                  *)
(***************************************************************************)

\* A deposit lands on chain: one more leaf in the chunk.
ChainAppend(c, leaf) ==
  /\ Len(chain[c]) < LEAVES_CAPACITY
  /\ chain' = [chain EXCEPT ![c] = Append(@, leaf)]
  /\ UNCHANGED <<cache, peerTree, lastLoad, treeVars, fsVars, callVars, agentVars, histVars,
                 relayerVars, dhtVars, libVars>>

\* A peer (another agent running this code) builds its replica from the chain
\* and serves it from then on at GET /tree/:chunkId.
PeerBuilds(c) ==
  /\ peerTree' = [peerTree EXCEPT ![c] = buildTree(@, chain[c]).data]
  /\ UNCHANGED <<chain, cache, lastLoad, treeVars, fsVars, callVars, agentVars, histVars,
                 relayerVars, dhtVars, libVars>>

\* The agent's process is started again: the replicas in memory are gone, the
\* cache files stay.
ReplicaRestart ==
  /\ \E c \in Chunks : trees[c].loaded
  /\ trees' = [c \in Chunks |-> NoTree]
  /\ path' = NoPath
  /\ UNCHANGED <<loadVars, fsVars, callVars, agentVars, histVars, relayerVars, dhtVars, libVars>>

\* A cache file in the legacy format, which holds leaves and no tree: it is not
\* written by this code, an earlier release of the agent left it.
leavesOnly(cached) == ~cached.loaded /\ cached.leaves # <<>>

\* An earlier release of the agent ran and cached the leaves it read on chain.
LegacyCache(c) ==
  /\ cache[c] = NoTree
  /\ ~trees[c].loaded
  /\ chain[c] # <<>>
  /\ cache' = [cache EXCEPT ![c] = [NoTree EXCEPT !.leaves = chain[c]]]
  /\ UNCHANGED <<chain, peerTree, lastLoad, treeVars, fsVars, callVars, agentVars, histVars,
                 relayerVars, dhtVars, libVars>>

\* loadTree(chunkId) with currentLeaves = what fetchLeavesFromChain read: the
\* replica it leaves in memory, the cache file, and the branch it returned from.
loadTree(existingTree, currentLeaves, cached, served) ==
  IF existingTree.loaded /\ Len(existingTree.leaves) = Len(currentLeaves)
  THEN [tree |-> existingTree, cache |-> cached, via |-> "memory"]
  ELSE IF existingTree.loaded /\ Len(currentLeaves) > Len(existingTree.leaves)
  THEN LET t == updateTree(existingTree, currentLeaves).data
       IN  [tree |-> t, cache |-> t, via |-> "update"]
  ELSE IF cached.loaded
  THEN [tree |-> cached, cache |-> cached, via |-> "cache"]
  ELSE IF leavesOnly(cached) /\ Len(cached.leaves) = Len(currentLeaves)
  THEN [tree |-> buildTree(existingTree, cached.leaves).data, cache |-> cached,
        via |-> "leaves"]
  ELSE IF served.loaded
  THEN [tree |-> served, cache |-> served, via |-> "peer"]
  ELSE LET t == buildTree(existingTree, currentLeaves).data
       IN  [tree |-> t, cache |-> t, via |-> "chain"]

LoadTree(c) ==
  LET r == loadTree(trees[c], chain[c], cache[c], peerTree[c])
  IN  /\ trees' = [trees EXCEPT ![c] = r.tree]
      /\ cache' = [cache EXCEPT ![c] = r.cache]
      /\ lastLoad' = [n |-> 1 - lastLoad.n, chunk |-> c, via |-> r.via, read |-> chain[c]]
      /\ path' = NoPath
      /\ UNCHANGED <<chain, peerTree, fsVars, callVars, agentVars, histVars, relayerVars, dhtVars, libVars>>

NextLoad ==
  \/ \E c \in Chunks, leaf \in LeafValues \ {ZERO} : ChainAppend(c, leaf)
  \/ \E c \in Chunks : PeerBuilds(c)
  \/ ReplicaRestart
  \/ \E c \in Chunks : LoadTree(c)

\* The same, on a disk that can hold a cache file of an earlier release.
NextUpdate ==
  \/ \E c \in Chunks, leaf \in LeafValues \ {ZERO} : ChainAppend(c, leaf)
  \/ \E u \in Updaters, c \in Chunks : updateTreeCall(u, c)
  \/ \E u \in Updaters : updateTreeResume(u)
  \/ \E c \in Chunks, i \in 0..(LEAVES_CAPACITY - 1) : GetMerklePath(c, i)

NextCache == NextLoad \/ \E c \in Chunks : LegacyCache(c)

(***************************************************************************)
(* DHTNode: XOR metric, k-buckets, iterative lookup                        *)
(***************************************************************************)

Nodes == {"A", "B"}

\* Node ids are ID_BITS wide here (ID_LENGTH * 8 bits in the source); the
\* buckets hold K nodes and a lookup asks ALPHA nodes per round, at most
\* maxRounds rounds.  A node record is its id: host and port follow from it.
ID_BITS == 2
K == 3
ALPHA == 2
maxRounds == 2

\* A NODES reply carries at most MaxReply nodes.
MaxReply == 1

NodeIds == 0..(2 ^ ID_BITS - 1)
NoId == -1
BucketIndexes == 0..(ID_BITS - 1)

CIPHER_NETWORK_ID == "cipher-agent-mainnet-v1"
Keys == {CIPHER_NETWORK_ID}

\* No DHTNode constructed yet.
NoDht == [id |-> NoId, socket |-> "none", transport |-> "none"]

\* Array.from({ length: ID_LENGTH * 8 }, () => new KBucket())
EmptyBuckets == [i \in BucketIndexes |-> <<>>]

\* An announce record {id, httpPort, timestamp, host}; NoValue: key not in the map.
NoValue == [id |-> NoId, timestamp |-> 0, host |-> NoId]
NoValues == [k \in Keys |-> NoValue]

\* No iterativeFindNode call has been made.
NoLookup == [pc |-> "idle", target |-> 0, shortlist |-> <<>>, queried |-> {},
             closest |-> {}, round |-> 0, initial |-> <<>>, result |-> <<>>]

\* a ^ b on the bits of two ids
RECURSIVE xor(_, _)
xor(a, b) ==
  IF a = 0 /\ b = 0 THEN 0
  ELSE (((a % 2) + (b % 2)) % 2) + 2 * xor(a \div 2, b \div 2)

distance(id1, id2) == xor(id1, id2)

\* Byte by byte from the most significant one: the order of the numbers.
compareDistance(dist1, dist2) ==
  IF dist1 < dist2 THEN -1 ELSE IF dist1 > dist2 THEN 1 ELSE 0

\* Position of the highest set bit, 0 for the zero distance.
RECURSIVE bucketIndex(_)
bucketIndex(dist) == IF dist <= 1 THEN 0 ELSE 1 + bucketIndex(dist \div 2)

\* A bucket that evicts its oldest node when it is full.
KBucket_addEvicts(nodes, node) ==
  IF \E i \in 1..Len(nodes) : nodes[i] = node
    THEN Append(SelectSeq(nodes, LAMBDA x : x # node), node)
    ELSE IF Len(nodes) < K THEN Append(nodes, node) ELSE Append(Tail(nodes), node)

\* KBucket.add: a known node moves to the end, a new one is appended while the
\* bucket has room, and is ignored when the bucket is full.
KBucket_add(nodes, node) ==
  IF \E i \in 1..Len(nodes) : nodes[i] = node
    THEN Append(SelectSeq(nodes, LAMBDA x : x # node), node)
    ELSE IF Len(nodes) < K THEN Append(nodes, node) ELSE nodes

\* addNode: never ourselves.
addNode(self, bk, node) ==
  IF node = NoId \/ node = self THEN bk
  ELSE [bk EXCEPT ![bucketIndex(distance(self, node))] = KBucket_add(@, node)]

\* The place of node in a list sorted by distance to target: behind every
\* entry that is not farther (Array.prototype.sort is stable).
insertByDistance(target, s, node) ==
  LET notFarther == SelectSeq(s, LAMBDA x :
                      compareDistance(distance(target, x), distance(target, node)) <= 0)
      farther == SelectSeq(s, LAMBDA x :
                      compareDistance(distance(target, x), distance(target, node)) > 0)
  IN  notFarther \o <<node>> \o farther

\* The same list with the farthest node first.
RECURSIVE sortFarthestFirst(_, _)
sortFarthestFirst(target, s) ==
  IF s = <<>> THEN <<>>
  ELSE LET rest == sortFarthestFirst(target, SubSeq(s, 1, Len(s) - 1))
           node == s[Len(s)]
       IN  SelectSeq(rest, LAMBDA x : distance(target, x) >= distance(target, node))
             \o <<node>>
             \o SelectSeq(rest, LAMBDA x : distance(target, x) < distance(target, node))

\* list.sort((a, b) => compareDistance(distance(target, a.id), distance(target, b.id)))
RECURSIVE sortByDistance(_, _)
sortByDistance(target, s) ==
  IF s = <<>> THEN <<>>
  ELSE insertByDistance(target, sortByDistance(target, SubSeq(s, 1, Len(s) - 1)), s[Len(s)])

\* list.slice(0, k)
slice(s, k) == SubSeq(s, 1, IF Len(s) < k THEN Len(s) ELSE k)

RECURSIVE allNodes(_, _)
allNodes(bk, i) == IF i >= ID_BITS THEN <<>> ELSE bk[i] \o allNodes(bk, i + 1)

findClosestNodes(bk, target, k) == slice(sortByDistance(target, allNodes(bk, 0)), k)

\* The outcome of one findNode call of a round (Promise.allSettled).
Rejected == [status |-> "rejected", value |-> <<>>]
Fulfilled(nodes) == [status |-> "fulfilled", value |-> nodes]

\* A round that asks the head of the shortlist, queried or not.
toQueryAgain(l) == slice(l.shortlist, ALPHA)

\* The unqueried nodes of the shortlist that the next round asks.
toQuery(l) == slice(SelectSeq(l.shortlist, LAMBDA x : x \notin l.queried), ALPHA)

\* The nodes of the fulfilled results, in the order the loop visits them.
RECURSIVE resultNodes(_)
resultNodes(results) ==
  IF results = <<>> THEN <<>> ELSE Head(results).value \o resultNodes(Tail(results))

\* Every node not seen in a reply before joins closest, the shortlist and the
\* routing table.
RECURSIVE pushNew(_, _, _)
pushNew(self, acc, nodes) ==
  IF nodes = <<>> THEN acc
  ELSE LET node == Head(nodes)
       IN  pushNew(self,
                   IF node \in acc.closest THEN acc
                   ELSE [closest |-> acc.closest \cup {node},
                         shortlist |-> Append(acc.shortlist, node),
                         buckets |-> addNode(self, acc.buckets, node)],
                   Tail(nodes))

\* One pass of the while loop of iterativeFindNode, given what the findNode
\* calls of the round settled to: the lookup and the routing table after it.
lookupRound(self, l, bk, results) ==
  LET acc == pushNew(self, [closest |-> l.closest, shortlist |-> l.shortlist, buckets |-> bk],
                     resultNodes(results))
  IN  [lookup |-> [l EXCEPT !.queried = @ \cup {toQuery(l)[i] : i \in 1..Len(toQuery(l))},
                            !.closest = acc.closest,
                            !.shortlist = sortByDistance(l.target, acc.shortlist),
                            !.round = @ + 1],
       buckets |-> acc.buckets]

\* Requests a node may send (the model stops issuing them after MaxTx).
MaxTx == 3
TxIds == 1..MaxTx
NoTx == 0

Transports == {"tcp", "udp"}

\* new Map()
EmptyMap == [k \in {} |-> NoTx]
mapSet(map, key, v) == [k \in DOMAIN map \cup {key} |-> IF k = key THEN v ELSE map[k]]
mapDelete(map, key) == [k \in DOMAIN map \ {key} |-> map[k]]

\* A promise of sendRequest: calls counts the calls of its resolve and reject
\* (a throw of the executor is a call of reject); only the first one settles
\* it, by says which one that was and msgTx the txId of the message it took.
NoRequest == [promise |-> "none", calls |-> 0, by |-> "none", msgTx |-> NoTx,
              send |-> "none", timer |-> "none"]

settle(r, to, by, msgTx) ==
  [r EXCEPT !.calls = @ + 1,
            !.promise = IF r.promise = "pending" THEN to ELSE @,
            !.by = IF r.promise = "pending" THEN by ELSE @,
            !.msgTx = IF r.promise = "pending" THEN msgTx ELSE @]

\* message.data: the target of FIND_NODE, the nodes of NODES, the value of STORE
\* and VALUE (the only key is CIPHER_NETWORK_ID).
NoData == [target |-> NoId, nodes |-> <<>>, value |-> NoValue]

\* A message as handleMessage destructures it, and the host it came from.
Message(type, id, txId, data, from) ==
  [type |-> type, id |-> id, txId |-> txId, data |-> data, from |-> from]

\* txId && this.pendingRequests.has(txId): the key of the entry the message
\* completes, NoTx when the message is handled as a request.
matchPending(map, txId) ==
  IF txId # NoTx /\ txId \in DOMAIN map THEN txId ELSE NoTx

\* handleStore: the TCP transport adds the sender's host to the value.
storedValue(transport, msg) ==
  IF transport = "tcp" THEN [msg.data.value EXCEPT !.host = msg.from] ELSE msg.data.value

\* handleMessage: what the node holds after the message, and whether the
\* message went to a pending request instead of a request handler.
handleMessage(self, transport, bk, vals, pending, reqs, msg) ==
  LET key == matchPending(pending, msg.txId)
      table == addNode(self, bk, msg.id)
  IN  IF key # NoTx
        THEN [buckets |-> table, values |-> vals,
              pending |-> mapDelete(pending, key),
              requests |-> [reqs EXCEPT ![pending[key]] = settle(@, "resolved", "message", msg.txId)],
              response |-> TRUE]
        ELSE [buckets |-> table,
              values |-> IF msg.type = "STORE"
                           THEN [vals EXCEPT ![CIPHER_NETWORK_ID] = storedValue(transport, msg)]
                           ELSE vals,
              pending |-> pending, requests |-> reqs, response |-> FALSE]

\* new DHTNode() draws a random id; start() opens the socket or the server.
start(n, id, transport) ==
  /\ dht[n] = NoDht
  /\ dht' = [dht EXCEPT ![n] = [id |-> id, socket |-> "open", transport |-> transport]]
  /\ UNCHANGED <<buckets, values, lookup, rpcVars, discoveryVars, outsideDht>>

\* stop(): the socket or the server is closed; what is pending stays pending.
dhtStop(n) ==
  /\ dht[n].socket = "open"
  /\ dht' = [dht EXCEPT ![n].socket = "closed"]
  /\ UNCHANGED <<buckets, values, lookup, rpcVars, discoveryVars, outsideDht>>

\* A message of a peer outside the model arrives and handleMessage runs; a
\* reply it writes goes back to that peer.
Receive(n, msg) ==
  /\ dht[n].socket = "open"
  /\ LET after == handleMessage(dht[n].id, dht[n].transport, buckets[n], values[n],
                                pendingRequests[n], requests, msg)
     IN  /\ buckets' = [buckets EXCEPT ![n] = after.buckets]
         /\ values' = [values EXCEPT ![n] = after.values]
         /\ pendingRequests' = [pendingRequests EXCEPT ![n] = after.pending]
         /\ requests' = after.requests
  /\ UNCHANGED <<dht, lookup, nextTx, discoveryVars, outsideDht>>

\* A PING of a peer outside the model, between lookups.
handlePing(n, sender) ==
  /\ lookup[n].pc # "loop"
  /\ Receive(n, Message("PING", sender, NoTx, NoData, sender))

\* sendRequest up to its first await.  UDP: socket.send runs inside the promise
\* executor, and on a socket that is not open it throws, which rejects the
\* promise before the timer is set.  TCP: sendMessage is awaited and swallows
\* every error, so the timer is set once it returns.
sendRequest(n) ==
  /\ dht[n] # NoDht
  /\ nextTx <= MaxTx
  /\ nextTx' = nextTx + 1
  /\ pendingRequests' = [pendingRequests EXCEPT ![n] = mapSet(@, nextTx, nextTx)]
  /\ requests' = [requests EXCEPT ![nextTx] =
       IF dht[n].transport = "tcp"
         THEN [NoRequest EXCEPT !.promise = "pending", !.send = "awaited"]
         ELSE IF dht[n].socket = "open"
           THEN [NoRequest EXCEPT !.promise = "pending", !.send = "done", !.timer = "armed"]
           ELSE settle([NoRequest EXCEPT !.promise = "pending", !.send = "threw"],
                       "rejected", "throw", NoTx)]
  /\ UNCHANGED <<dht, buckets, values, lookup, discoveryVars, outsideDht>>

\* TCP: sendMessage returns, written or not, and sendRequest sets the timer.
sendMessageReturns(n, tx) ==
  /\ tx \in TxIds
  /\ requests[tx].send = "awaited"
  /\ requests' = [requests EXCEPT ![tx].send = "done", ![tx].timer = "armed"]
  /\ UNCHANGED <<dht, buckets, values, lookup, pendingRequests, nextTx, discoveryVars, outsideDht>>

\* The setTimeout callback of sendRequest runs after RPC_TIMEOUT.
requestTimeout(n, tx) ==
  /\ requests[tx].timer = "armed"
  /\ IF tx \in DOMAIN pendingRequests[n]
       THEN /\ pendingRequests' = [pendingRequests EXCEPT ![n] = mapDelete(@, tx)]
            /\ requests' = [requests EXCEPT ![tx] =
                 [settle(@, "rejected", "timeout", NoTx) EXCEPT !.timer = "fired"]]
       ELSE /\ requests' = [requests EXCEPT ![tx].timer = "fired"]
            /\ UNCHANGED pendingRequests
  /\ UNCHANGED <<dht, buckets, values, lookup, nextTx, discoveryVars, outsideDht>>

\* iterativeFindNode(target) up to the while loop: the shortlist is seeded with
\* the closest local nodes.
seedLookup(bk, target) ==
  [NoLookup EXCEPT !.pc = "loop", !.target = target,
                   !.shortlist = findClosestNodes(bk, target, ALPHA),
                   !.initial = findClosestNodes(bk, target, ALPHA)]

\* iterativeFindNode(target) is called.
iterativeFindNode(n, target) ==
  /\ dht[n].socket = "open"
  /\ lookup[n].pc # "loop"
  /\ lookup' = [lookup EXCEPT ![n] = seedLookup(buckets[n], target)]
  /\ UNCHANGED <<dht, buckets, values, rpcVars, discoveryVars, outsideDht>>

\* What a findNode call can settle to when nothing is known about the peers:
\* a timeout or failure, or a NODES reply with any nodes in it.
Replies == {Rejected} \cup {Fulfilled(s) : s \in UNION {[1..k -> NodeIds] : k \in 0..MaxReply}}

\* One round of the lookup against peers that answer anything or nothing.
LookupRound(n) ==
  /\ lookup[n].pc = "loop"
  /\ lookup[n].round < maxRounds
  /\ toQuery(lookup[n]) # <<>>
  /\ \E results \in [1..Len(toQuery(lookup[n])) -> Replies] :
       LET after == lookupRound(dht[n].id, lookup[n], buckets[n], results)
       IN  /\ lookup' = [lookup EXCEPT ![n] = after.lookup]
           /\ buckets' = [buckets EXCEPT ![n] = after.buckets]
  /\ UNCHANGED <<dht, values, rpcVars, discoveryVars, outsideDht>>

\* The loop ends (nobody left to ask, or maxRounds reached) and
\* iterativeFindNode returns shortlist.slice(0, K).
LookupReturn(n) ==
  /\ lookup[n].pc = "loop"
  /\ lookup[n].round >= maxRounds \/ toQuery(lookup[n]) = <<>>
  /\ lookup' = [lookup EXCEPT ![n] =
       [NoLookup EXCEPT !.pc = "done", !.target = lookup[n].target,
                        !.initial = lookup[n].initial,
                        !.result = slice(lookup[n].shortlist, K)]]
  /\ UNCHANGED <<dht, buckets, values, rpcVars, discoveryVars, outsideDht>>

\* sha256(CIPHER_NETWORK_ID), the target of announce and findAgents, as an id.
networkTarget == 0

\* A node announces at most MaxAnnounce times.
MaxAnnounce == 2

\* No bootstrap, announce or findAgents call is running.
NoOp == [kind |-> "idle", asked |-> FALSE]

\* findAgents has not returned yet.
NotFound == [done |-> FALSE, asked |-> FALSE, agents |-> {}]

\* The node that listens at the address of a node record, if any.
listener(node) ==
  IF \E m \in Nodes : dht[m].id = node /\ dht[m].socket = "open"
    THEN CHOOSE m \in Nodes : dht[m].id = node /\ dht[m].socket = "open"
    ELSE "nobody"

\* The rejection of sendRequest by its timeout.
Timeout == Message("TIMEOUT", NoId, NoTx, NoData, NoId)

\* What a request handler writes back: handlePing, handleFindNode, handleStore,
\* handleFindValue (bk is the routing table after the sender was added).
reply(self, bk, vals, msg) ==
  CASE msg.type = "PING" -> Message("PONG", self, msg.txId, NoData, self)
    [] msg.type = "FIND_NODE" ->
         Message("NODES", self, msg.txId,
                 [NoData EXCEPT !.nodes = findClosestNodes(bk, msg.data.target, K)], self)
    [] msg.type = "STORE" -> Message("STORED", self, msg.txId, NoData, self)
    [] msg.type = "FIND_VALUE" ->
         IF vals[CIPHER_NETWORK_ID] # NoValue
           THEN Message("VALUE", self, msg.txId,
                        [NoData EXCEPT !.value = vals[CIPHER_NETWORK_ID]], self)
           ELSE Message("NODES", self, msg.txId,
                        [NoData EXCEPT !.nodes = findClosestNodes(bk, networkTarget, K)], self)

\* sendRequest(msg) of node n to the address of a node record, on a network
\* that loses nothing: the routing tables and stores after the exchange, and
\* what the promise settles to.  The request is delivered to whoever listens
\* at the address, handleMessage runs there, and the reply, if one is written,
\* is delivered back to n, where handleMessage gives it to the pending request.
rpc(w, n, node, msg) ==
  LET m == listener(node)
      tx == nextTx
      req == [msg EXCEPT !.txId = tx]
      pend == mapSet(pendingRequests[n], tx, tx)
      reqs == [t \in {tx} |-> [NoRequest EXCEPT !.promise = "pending"]]
  IN  IF m = "nobody" THEN [w |-> w, response |-> Timeout]
      ELSE
        LET there == handleMessage(dht[m].id, dht[m].transport, w.buckets[m], w.values[m],
                                   IF m = n THEN pend ELSE pendingRequests[m], reqs, req)
            w1 == [buckets |-> [w.buckets EXCEPT ![m] = there.buckets],
                   values |-> [w.values EXCEPT ![m] = there.values]]
        IN  IF there.response
              THEN [w |-> w1, response |-> IF m = n THEN req ELSE Timeout]
              ELSE
                LET answer == reply(dht[m].id, there.buckets, w.values[m], req)
                    back == handleMessage(dht[n].id, dht[n].transport, w1.buckets[n],
                                          w1.values[n], pend, reqs, answer)
                IN  [w |-> [buckets |-> [w1.buckets EXCEPT ![n] = back.buckets],
                            values |-> [w1.values EXCEPT ![n] = back.values]],
                     response |-> answer]

\* The routing tables and stores of all nodes.
World == [buckets |-> buckets, values |-> values]

\* findNode(target, node) for each node of a round: rejected unless the
\* response carries data.nodes.
RECURSIVE findNodes(_, _, _, _)
findNodes(w, n, target, nodes) ==
  IF nodes = <<>> THEN [w |-> w, results |-> <<>>]
  ELSE LET r == rpc(w, n, Head(nodes),
                    Message("FIND_NODE", dht[n].id, NoTx,
                            [NoData EXCEPT !.target = target], dht[n].id))
           rest == findNodes(r.w, n, target, Tail(nodes))
       IN  [w |-> rest.w,
            results |-> <<IF r.response.type = "NODES"
                            THEN Fulfilled(r.response.data.nodes)
                            ELSE Rejected>> \o rest.results]

\* store(CIPHER_NETWORK_ID, value, node) for each node the lookup returned.
RECURSIVE storeAll(_, _, _, _)
storeAll(w, n, value, nodes) ==
  IF nodes = <<>> THEN w
  ELSE storeAll(rpc(w, n, Head(nodes),
                    Message("STORE", dht[n].id, NoTx,
                            [NoData EXCEPT !.value = value], dht[n].id)).w,
                n, value, Tail(nodes))

\* The loop of findAgents: FIND_VALUE to each node, the VALUE responses collected.
RECURSIVE findValues(_, _, _)
findValues(w, n, nodes) ==
  IF nodes = <<>> THEN [w |-> w, agents |-> {}]
  ELSE LET r == rpc(w, n, Head(nodes),
                    Message("FIND_VALUE", dht[n].id, NoTx, NoData, dht[n].id))
           rest == findValues(r.w, n, Tail(nodes))
       IN  [w |-> rest.w,
            agents |-> (IF r.response.type = "VALUE" THEN {r.response.data.value} ELSE {})
                         \cup rest.agents]

\* One round of a lookup between the nodes of the model.
LookupRoundNet(n) ==
  /\ lookup[n].pc = "loop"
  /\ lookup[n].round < maxRounds
  /\ toQuery(lookup[n]) # <<>>
  /\ LET f == findNodes(World, n, lookup[n].target, toQuery(lookup[n]))
         after == lookupRound(dht[n].id, lookup[n], f.w.buckets[n], f.results)
     IN  /\ lookup' = [lookup EXCEPT ![n] = after.lookup]
         /\ buckets' = [f.w.buckets EXCEPT ![n] = after.buckets]
         /\ values' = f.w.values
  /\ UNCHANGED <<dht, rpcVars, discoveryVars, outsideDht>>

\* bootstrap(peer) up to the lookup: the peer is pinged, and if it answers the
\* node looks up its own id; if it does not, bootstrap throws.
bootstrap(n, peer) ==
  /\ dht[n].socket = "open"
  /\ dht[peer] # NoDht
  /\ op[n].kind = "idle"
  /\ ~bootstrapped[n]
  /\ LET r == rpc(World, n, dht[peer].id, Message("PING", dht[n].id, NoTx, NoData, dht[n].id))
     IN  /\ buckets' = r.w.buckets
         /\ values' = r.w.values
         /\ IF r.response # Timeout
              THEN /\ op' = [op EXCEPT ![n].kind = "bootstrap"]
                   /\ lookup' = [lookup EXCEPT ![n] = seedLookup(r.w.buckets[n], dht[n].id)]
              ELSE UNCHANGED <<op, lookup>>
  /\ UNCHANGED <<dht, rpcVars, bootstrapped, announced, found, outsideDht>>

\* The lookup of bootstrap has returned: bootstrap returns the nodes.
bootstrapReturns(n) ==
  /\ op[n].kind = "bootstrap"
  /\ lookup[n].pc = "done"
  /\ op' = [op EXCEPT ![n] = NoOp]
  /\ bootstrapped' = [bootstrapped EXCEPT ![n] = TRUE]
  /\ UNCHANGED <<dht, buckets, values, lookup, rpcVars, announced, found, outsideDht>>

\* announce(httpPort) up to the lookup of the network id.
announce(n) ==
  /\ dht[n].socket = "open"
  /\ op[n].kind = "idle"
  /\ announced[n] < MaxAnnounce
  /\ op' = [op EXCEPT ![n].kind = "announce"]
  /\ lookup' = [lookup EXCEPT ![n] = seedLookup(buckets[n], networkTarget)]
  /\ UNCHANGED <<dht, buckets, values, rpcVars, bootstrapped, announced, found, outsideDht>>

\* The lookup of announce has returned: the record is stored on the nodes found.
announceStores(n) ==
  /\ op[n].kind = "announce"
  /\ lookup[n].pc = "done"
  /\ LET value == [id |-> dht[n].id, timestamp |-> announced[n] + 1, host |-> NoId]
         w == storeAll(World, n, value, slice(lookup[n].result, K))
     IN  /\ buckets' = w.buckets
         /\ values' = w.values
  /\ announced' = [announced EXCEPT ![n] = @ + 1]
  /\ op' = [op EXCEPT ![n] = NoOp]
  /\ UNCHANGED <<dht, lookup, rpcVars, bootstrapped, found, outsideDht>>

\* findAgents() up to its lookup; asked: B has bootstrapped and every node has
\* announced before the call.
findAgents(n) ==
  /\ dht[n].socket = "open"
  /\ op[n].kind = "idle"
  /\ op' = [op EXCEPT ![n] = [kind |-> "findAgents",
                              asked |-> bootstrapped["B"] /\ \A m \in Nodes : announced[m] > 0]]
  /\ lookup' = [lookup EXCEPT ![n] = seedLookup(buckets[n], networkTarget)]
  /\ UNCHANGED <<dht, buckets, values, rpcVars, bootstrapped, announced, found, outsideDht>>

\* The lookup of findAgents has returned: every node found is asked for the
\* value, and findAgents returns the values it got.
findAgentsReturns(n) ==
  /\ op[n].kind = "findAgents"
  /\ lookup[n].pc = "done"
  /\ LET f == findValues(World, n, lookup[n].result)
     IN  /\ buckets' = f.w.buckets
         /\ values' = f.w.values
         /\ found' = [found EXCEPT ![n] = [done |-> TRUE, asked |-> op[n].asked,
                                           agents |-> f.agents]]
  /\ op' = [op EXCEPT ![n] = NoOp]
  /\ UNCHANGED <<dht, lookup, rpcVars, bootstrapped, announced, outsideDht>>

\* Two nodes on the TCP transport with different ids; B bootstraps from A, and
\* once it has, the nodes announce.
NextAgents ==
  \/ \E n \in Nodes, id \in NodeIds :
       (\A m \in Nodes : dht[m].id # id) /\ start(n, id, "tcp")
  \/ bootstrap("B", "A")
  \/ \E n \in Nodes : LookupRoundNet(n)
  \/ \E n \in Nodes : LookupReturn(n)
  \/ bootstrapReturns("B")
  \/ \E n \in Nodes : bootstrapped["B"] /\ announce(n)
  \/ \E n \in Nodes : announceStores(n)
  \/ \E n \in Nodes : findAgents(n)
  \/ \E n \in Nodes : findAgentsReturns(n)

NextLookup ==
  \/ \E id \in NodeIds : start("A", id, "tcp")
  \/ \E sender \in NodeIds : handlePing("A", sender)
  \/ \E target \in NodeIds : iterativeFindNode("A", target)
  \/ LookupRound("A")
  \/ LookupReturn("A")

\* The same with the node's own id fixed (the metric is the same from every id).
NextLookupFixed ==
  \/ start("A", 0, "tcp")
  \/ \E sender \in NodeIds : handlePing("A", sender)
  \/ \E target \in NodeIds : iterativeFindNode("A", target)
  \/ LookupRound("A")
  \/ LookupReturn("A")

\* Every findNode call of a round settles (reply, failure or timeout), so a
\* round that can run does run, and a loop that can end does end.
\* LookupRound("A") is enabled exactly when RoundCanRun holds, and its steps are
\* the steps of the specification that satisfy RoundRuns, so the first two
\* lines are WF_vars(LookupRound("A")) written out.
RoundCanRun ==
  lookup["A"].pc = "loop" /\ lookup["A"].round < maxRounds /\ toQuery(lookup["A"]) # <<>>
RoundRuns ==
  lookup["A"].pc = "loop" /\ lookup'["A"].pc = "loop"
    /\ lookup'["A"].round = lookup["A"].round + 1
FairLookup ==
  /\ []<>(~RoundCanRun) \/ []<><<RoundRuns>>_vars
  /\ WF_vars(LookupReturn("A"))

\* One node, its requests, and peers that send anything at any time.
NextPending ==
  \/ \E t \in Transports : start("A", 0, t)
  \/ dhtStop("A")
  \/ sendRequest("A")
  \/ \E tx \in TxIds : sendMessageReturns("A", tx)
  \/ \E tx \in TxIds : requestTimeout("A", tx)
  \/ \E type \in {"PING", "PONG"}, id \in {NoId, 1}, tx \in TxIds \cup {NoTx} :
       Receive("A", Message(type, id, tx, NoData, 1))

(***************************************************************************)
(* Library functions called on their own                                   *)
(***************************************************************************)

\* No function has been called.
NoProbe == [fn |-> "none"]

\* new KBucket(), then add(node) again and again on the same bucket.
KBucketAdd(node) ==
  /\ LET nodes == IF probe.fn = "KBucket.add" THEN probe.nodes ELSE <<>>
     IN  probe' = [fn |-> "KBucket.add", before |-> nodes, node |-> node,
                   nodes |-> KBucket_add(nodes, node)]
  /\ UNCHANGED <<cryptoVars, outsideLib>>

NextBucket == \E node \in NodeIds : KBucketAdd(node)

\* bucketIndex is checked on ids of ID_LENGTH bytes (32 in the source), each
\* byte drawn from ByteValues.
ID_LENGTH == 2
ByteValues == {0, 1, 128, 255}
ByteIds == [1..ID_LENGTH -> ByteValues]

\* distance(id1, id2) byte by byte: dist[i] = id1[i] ^ id2[i]
distanceBytes(id1, id2) == [i \in 1..ID_LENGTH |-> xor(id1[i], id2[i])]

\* dist[i] & (1 << j)
bitSet(byte, j) == (byte \div (2 ^ j)) % 2 = 1

\* The number a byte string stands for, most significant byte first.
RECURSIVE valueOf(_)
valueOf(bytes) ==
  IF bytes = <<>> THEN 0
  ELSE 256 * valueOf(SubSeq(bytes, 1, Len(bytes) - 1)) + bytes[Len(bytes)]

\* The scan that returns how far the first set bit is from the top.
RECURSIVE bucketIndexFromTop(_, _, _)
bucketIndexFromTop(dist, i, j) ==
  IF i > ID_LENGTH THEN 0
  ELSE IF bitSet(dist[i], j) THEN (i - 1) * 8 + (7 - j)
  ELSE IF j = 0 THEN bucketIndexFromTop(dist, i + 1, 7)
  ELSE bucketIndexFromTop(dist, i, j - 1)

\* The two loops of bucketIndex from byte i (1-based), bit j on: the first set
\* bit from the top gives (ID_LENGTH * 8 - 1) - (i * 8 + (7 - j)); no bit, 0.
RECURSIVE bucketIndexScan(_, _, _)
bucketIndexScan(dist, i, j) ==
  IF i > ID_LENGTH THEN 0
  ELSE IF bitSet(dist[i], j) THEN (ID_LENGTH * 8 - 1) - ((i - 1) * 8 + (7 - j))
  ELSE IF j = 0 THEN bucketIndexScan(dist, i + 1, 7)
  ELSE bucketIndexScan(dist, i, j - 1)

\* bucketIndex(distance(a, b)) is computed for two ids.
BucketIndexOf(a, b) ==
  /\ probe' = [fn |-> "bucketIndex", a |-> a, b |-> b, dist |-> distanceBytes(a, b),
               index |-> bucketIndexScan(distanceBytes(a, b), 1, 7)]
  /\ UNCHANGED <<cryptoVars, outsideLib>>

\* addNode(node) on the routing table of a node with id self, call after call.
AddNodeTo(self, node) ==
  /\ probe.fn = "addNode" => probe.self = self
  /\ LET bk == IF probe.fn = "addNode" THEN probe.buckets ELSE EmptyBuckets
     IN  probe' = [fn |-> "addNode", self |-> self, node |-> node, before |-> bk,
                   buckets |-> addNode(self, bk, node)]
  /\ UNCHANGED <<cryptoVars, outsideLib>>

NextIndex ==
  \/ \E a, b \in ByteIds : BucketIndexOf(a, b)
  \/ \E self, node \in NodeIds : AddNodeTo(self, node)

\* A host as a peer record carries it: missing, not a string, a name, or a
\* dotted IPv4 address with its four octets.
Host(kind, octets) == [kind |-> kind, octets |-> octets]
Ip(a, b, c, d) == Host("ipv4", <<a, b, c, d>>)
NoHost == Host("missing", <<0, 0, 0, 0>>)
Localhost == Host("name", <<0, 0, 0, 0>>)

\* A port as a peer record carries it; 0 stands for a missing port.
NoPort == 0
Ports == {NoPort, 1023, 1024, 8547, 65535, 65536}

\* The peers of the model that share one /24.
SubnetPeers == 6

Hosts ==
  {NoHost, Host("number", <<0, 0, 0, 0>>), Localhost, Ip(127, 0, 0, 1), Ip(8, 8, 8, 8),
   Ip(8, 8, 9, 1), Ip(10, 0, 0, 1), Ip(11, 0, 0, 1), Ip(172, 15, 0, 1), Ip(172, 16, 0, 1),
   Ip(172, 31, 0, 1), Ip(172, 32, 0, 1), Ip(192, 168, 1, 1), Ip(192, 169, 1, 1)}

Peer(host, port) == [host |-> host, port |-> port]

\* The peers that send messages, appear in NODES replies or are bootstrapped
\* from: SubnetPeers public ones in one /24, one in another, a private one and
\* one on a low port.  Each has its own node id.
KnownPeers ==
  {Peer(Ip(8, 8, 8, d), 8547) : d \in 1..SubnetPeers}
    \cup {Peer(Ip(8, 8, 9, 1), 8547), Peer(Ip(192, 168, 1, 1), 8547), Peer(Ip(8, 8, 7, 1), 80)}

\* /^(10\.|172\.(1[6-9]|2[0-9]|3[0-1])\.|192\.168\.)/.test(host)
isPrivate(host) ==
  /\ host.kind = "ipv4"
  /\ \/ host.octets[1] = 10
     \/ host.octets[1] = 172 /\ host.octets[2] \in 16..31
     \/ host.octets[1] = 192 /\ host.octets[2] = 168

\* host === 'localhost' || host === '127.0.0.1'
isLocalhost(host) == host = Localhost \/ host = Ip(127, 0, 0, 1)

\* host.split('.').slice(0, 3).join('.')
subnetOf(host) == [kind |-> host.kind, first |-> SubSeq(host.octets, 1, 3)]

\* The nodes of all buckets whose host is in the subnet.
countFromSubnet(table, subnet) == Cardinality({q \in table : subnetOf(q.host) = subnet})

MAX_NODES_PER_SUBNET == 5

\* A validator without the subnet cap.
validatePeerNoCap(peer, table) ==
  /\ peer.host.kind \in {"name", "ipv4"}
  /\ ~(isPrivate(peer.host) /\ ~isLocalhost(peer.host))
  /\ ~(peer.port = NoPort \/ peer.port < 1024 \/ peer.port > 65535)

\* _validatePeer(peer) with the nodes of the routing table.
validatePeer(peer, table) ==
  /\ peer.host.kind \in {"name", "ipv4"}
  /\ ~(isPrivate(peer.host) /\ ~isLocalhost(peer.host))
  /\ ~(peer.port = NoPort \/ peer.port < 1024 \/ peer.port > 65535)
  /\ ~(countFromSubnet(table, subnetOf(peer.host)) >= MAX_NODES_PER_SUBNET)

\* The routing table the peer probes run on (the nodes of all buckets).
PeerCalls == {"_validatePeer", "handleMessage", "iterativeFindNode", "bootstrap"}
TableOf(pr) == IF pr.fn \in PeerCalls THEN pr.table ELSE {}

\* _validatePeer(peer) is called.
ValidatePeer(peer) ==
  /\ probe.fn \in {"none"} \cup PeerCalls
  /\ probe' = [fn |-> "_validatePeer", table |-> TableOf(probe), peer |-> peer,
               result |-> validatePeer(peer, TableOf(probe))]
  /\ UNCHANGED <<cryptoVars, outsideLib>>

\* A message of a peer arrives: handleMessage calls addNode with the sender's
\* address.  The buckets are taken to have room.
InboundAdds(peer) ==
  /\ probe.fn \in {"none"} \cup PeerCalls
  /\ probe' = [fn |-> "handleMessage", table |-> TableOf(probe) \cup {peer}, peer |-> peer,
               result |-> TRUE]
  /\ UNCHANGED <<cryptoVars, outsideLib>>

\* A NODES reply names a peer: iterativeFindNode calls addNode with it.
LookupAdds(peer) ==
  /\ probe.fn \in {"none"} \cup PeerCalls
  /\ probe' = [fn |-> "iterativeFindNode", table |-> TableOf(probe) \cup {peer}, peer |-> peer,
               result |-> TRUE]
  /\ UNCHANGED <<cryptoVars, outsideLib>>

\* bootstrap(peer) with a peer that answers the ping: validated, then added.
BootstrapAdds(peer) ==
  /\ probe.fn \in {"none"} \cup PeerCalls
  /\ validatePeer(peer, TableOf(probe))
  /\ probe' = [fn |-> "bootstrap", table |-> TableOf(probe) \cup {peer}, peer |-> peer,
               result |-> TRUE]
  /\ UNCHANGED <<cryptoVars, outsideLib>>

\* The validator on any peer, with a routing table filled through bootstrap.
NextValidate ==
  \/ \E host \in Hosts, port \in Ports : ValidatePeer(Peer(host, port))
  \/ \E peer \in KnownPeers : ValidatePeer(peer)
  \/ \E peer \in KnownPeers : BootstrapAdds(peer)

\* The routing table filled by messages, lookups and bootstraps.
NextPeers ==
  \/ \E peer \in KnownPeers : InboundAdds(peer)
  \/ \E peer \in KnownPeers : LookupAdds(peer)
  \/ \E peer \in KnownPeers : BootstrapAdds(peer)

(***************************************************************************)
(* CipherAgent.start: the auto-mix loop                                    *)
(***************************************************************************)

\* Bound: how many times start() is called.
MaxStarts == 2
MixLoops == 1..MaxStarts

\* The 60000 ms of the low-balance wait and of the retry wait, in units of 30 s.
CoolDown == 2

\* What randomDelay returns for the intervals start() is given, in units of 30 s.
Delays == 0..1

\* options.maxRunTime in units of 30 s; 0 is null, no deadline.
RunTimes == {0, 3}

\* The awaited steps of one iteration, and its timers.
MixSteps == {"getBalance", "deposit", "loadTree", "withdraw"}
MixSleeps == {"lowBalance", "withdrawDelay", "nextCycleDelay", "retry"}

NoMix == [pc |-> "none", wait |-> 0, elapsed |-> 0, maxRunTime |-> 0]

\* shouldStop() of the loop a start() call created.
shouldStop(mx) ==
  \/ ~isRunning
  \/ mx.maxRunTime # 0 /\ mx.elapsed >= mx.maxRunTime

\* start(options): sets the flag and calls mixingLoop(), which passes its first
\* shouldStop() and awaits getBalance().
agentStart(l, maxRunTime) ==
  /\ mixing[l] = NoMix
  /\ \A k \in MixLoops : k < l => mixing[k] # NoMix
  /\ isRunning' = TRUE
  /\ mixing' = [mixing EXCEPT ![l] = [NoMix EXCEPT !.pc = "getBalance", !.maxRunTime = maxRunTime]]
  /\ UNCHANGED outsideMix

\* stop()
agentStop ==
  /\ \E l \in MixLoops : mixing[l] # NoMix
  /\ isRunning
  /\ isRunning' = FALSE
  /\ UNCHANGED <<mixing, outsideMix>>

\* The awaited step of the loop body settles: it throws (the catch block
\* starts the retry wait), getBalance finds too little, or it returns and the
\* body goes on to its next await.
mixingLoop(l, settled, delay) ==
  /\ mixing[l].pc \in MixSteps
  /\ settled = "low" => mixing[l].pc = "getBalance"
  /\ mixing' = [mixing EXCEPT ![l] =
       IF settled = "throws" THEN [@ EXCEPT !.pc = "retry", !.wait = CoolDown]
       ELSE IF settled = "low" THEN [@ EXCEPT !.pc = "lowBalance", !.wait = CoolDown]
       ELSE CASE @.pc = "getBalance" -> [@ EXCEPT !.pc = "deposit"]
              [] @.pc = "deposit" -> [@ EXCEPT !.pc = "withdrawDelay", !.wait = delay]
              [] @.pc = "loadTree" -> [@ EXCEPT !.pc = "withdraw"]
              [] @.pc = "withdraw" -> [@ EXCEPT !.pc = "nextCycleDelay", !.wait = delay]]
  /\ UNCHANGED <<isRunning, outsideMix>>

\* A setTimeout of the loop fires: after the deposit the body goes on to the
\* tree reload, after the other waits the iteration is over.
mixingTimer(l) ==
  /\ mixing[l].pc \in MixSleeps
  /\ mixing[l].wait = 0
  /\ mixing' = [mixing EXCEPT ![l].pc = IF @ = "withdrawDelay" THEN "loadTree" ELSE "while"]
  /\ UNCHANGED <<isRunning, outsideMix>>

\* while (!shouldStop())
mixingWhile(l) ==
  /\ mixing[l].pc = "while"
  /\ mixing' = [mixing EXCEPT ![l].pc = IF shouldStop(mixing[l]) THEN "stopped" ELSE "getBalance"]
  /\ UNCHANGED <<isRunning, outsideMix>>

\* 30 s pass on the wall clock.
elapse(mx) ==
  IF mx.pc \in {"none", "stopped"} THEN mx
  ELSE [mx EXCEPT !.wait = IF @ > 0 THEN @ - 1 ELSE 0,
                  !.elapsed = IF @ < mx.maxRunTime THEN @ + 1 ELSE @]
Elapse ==
  /\ mixing' = [l \in MixLoops |-> elapse(mixing[l])]
  /\ mixing' # mixing
  /\ UNCHANGED <<isRunning, outsideMix>>

NextMix ==
  \/ \E l \in MixLoops, maxRunTime \in RunTimes : agentStart(l, maxRunTime)
  \/ agentStop
  \/ \E l \in MixLoops, settled \in {"returns", "low", "throws"}, delay \in Delays :
       mixingLoop(l, settled, delay)
  \/ \E l \in MixLoops : mixingTimer(l)
  \/ \E l \in MixLoops : mixingWhile(l)
  \/ Elapse

\* Every awaited step settles, every timer fires and the clock runs; when
\* start() and stop() are called is up to the caller.
FairMix ==
  /\ \A l \in MixLoops :
       /\ WF_vars(\E settled \in {"returns", "low", "throws"}, delay \in Delays :
                    mixingLoop(l, settled, delay))
       /\ WF_vars(mixingTimer(l))
       /\ WF_vars(mixingWhile(l))
  /\ WF_vars(Elapse)

(***************************************************************************)
(* MessageFramer: length-prefixed frames on a byte stream                  *)
(***************************************************************************)

\* Frames a peer sends on one connection.
MaxFrames == 3

\* Messages and their JSON text in UTF-8 bytes: {} and [1] and "é" (whose
\* character takes two bytes).
FramedMessages == {"object", "array", "string"}
stringify(message) ==
  CASE message = "object" -> <<123, 125>>
    [] message = "array" -> <<91, 49, 93>>
    [] message = "string" -> <<34, 195, 169, 34>>

\* Payloads JSON.parse throws on: a lone brace, and nothing at all.
MalformedPayloads == {<<123>>, <<>>}

\* JSON.parse(messageBuf.toString('utf8')): the message, or "SyntaxError".
parse(bytes) ==
  IF \E message \in FramedMessages : stringify(message) = bytes
    THEN CHOOSE message \in FramedMessages : stringify(message) = bytes
    ELSE "SyntaxError"

\* lengthBuf.writeUInt32BE(length, 0) and buffer.readUInt32BE(0)
writeUInt32BE(v) ==
  <<(v \div 16777216) % 256, (v \div 65536) % 256, (v \div 256) % 256, v % 256>>
readUInt32BE(b) == ((b[1] * 256 + b[2]) * 256 + b[3]) * 256 + b[4]

\* The frame of a payload; MessageFramer.encode(message) is the frame of its JSON.
frame(payload) == writeUInt32BE(Len(payload)) \o payload
encode(message) == frame(stringify(message))

\* A decode loop that ends at a frame whose payload does not parse.
RECURSIVE decodeLoopStopsAtMalformed(_, _)
decodeLoopStopsAtMalformed(buffer, messages) ==
  IF Len(buffer) < 4 \/ Len(buffer) < 4 + readUInt32BE(buffer)
    THEN [buffer |-> buffer, messages |-> messages]
    ELSE LET length == readUInt32BE(buffer)
             message == parse(SubSeq(buffer, 5, 4 + length))
         IN  IF message = "SyntaxError" THEN [buffer |-> buffer, messages |-> messages]
             ELSE decodeLoopStopsAtMalformed(SubSeq(buffer, 5 + length, Len(buffer)),
                                             Append(messages, message))

\* The while loop of decode: complete frames are cut off the buffer, and those
\* that parse are collected.
RECURSIVE decodeLoop(_, _)
decodeLoop(buffer, messages) ==
  IF Len(buffer) < 4 \/ Len(buffer) < 4 + readUInt32BE(buffer)
    THEN [buffer |-> buffer, messages |-> messages]
    ELSE LET length == readUInt32BE(buffer)
             message == parse(SubSeq(buffer, 5, 4 + length))
         IN  decodeLoop(SubSeq(buffer, 5 + length, Len(buffer)),
                        IF message = "SyntaxError" THEN messages ELSE Append(messages, message))

\* decode(data) on a framer with the given buffer.
decode(buffer, data) == decodeLoop(buffer \o data, <<>>)

\* A connection: the payloads the peer has framed, the bytes still on their
\* way, the framer's buffer and the messages decode has returned so far.
NewConnection ==
  [fn |-> "MessageFramer", sent |-> <<>>, wire |-> <<>>, buffer |-> <<>>, messages |-> <<>>]
ConnectionOf(pr) == IF pr.fn = "MessageFramer" THEN pr ELSE NewConnection

\* The peer writes a frame: an encoded message or a frame with a bad payload.
WriteFrame(payload) ==
  /\ probe.fn \in {"none", "MessageFramer"}
  /\ Len(ConnectionOf(probe).sent) < MaxFrames
  /\ probe' = [ConnectionOf(probe) EXCEPT !.sent = Append(@, payload),
                                          !.wire = @ \o frame(payload)]
  /\ UNCHANGED <<cryptoVars, outsideLib>>

\* socket.on('data'): the next k bytes arrive in one chunk and are decoded.
OnData(k) ==
  /\ probe.fn = "MessageFramer"
  /\ k \in 1..Len(probe.wire)
  /\ LET r == decode(probe.buffer, SubSeq(probe.wire, 1, k))
     IN  probe' = [probe EXCEPT !.wire = SubSeq(probe.wire, k + 1, Len(probe.wire)),
                                !.buffer = r.buffer,
                                !.messages = @ \o r.messages]
  /\ UNCHANGED <<cryptoVars, outsideLib>>

NextFramer ==
  \/ \E message \in FramedMessages : WriteFrame(stringify(message))
  \/ \E payload \in MalformedPayloads : WriteFrame(payload)
  \/ \E k \in 1..(MaxFrames * 8) : OnData(k)

(***************************************************************************)
(* lib/deposit-code.js                                                     *)
(***************************************************************************)
VERSION_BYTE_SIZE == 1
\* Two bytes stand for the 32 of a nullifier and of a secret: they are copied.
NULLIFIER_SIZE == 2
SECRET_SIZE == 2
CHUNK_ID_SIZE == 4
AMOUNT_SIZE == 8
V1_TOTAL_SIZE == VERSION_BYTE_SIZE + NULLIFIER_SIZE + SECRET_SIZE + CHUNK_ID_SIZE + AMOUNT_SIZE
CURRENT_VERSION == 1

\* The significant bits of a JS number.
MANTISSA_BITS == 53

\* An unsigned integer is the set of the positions of its set bits, so that
\* 64-bit values keep their width.
pow2(k) == {k}
allBits(lo, hi) == lo..hi
highestBit(bits) == CHOOSE h \in bits : \A b \in bits : b <= h

\* bits + 2^p
addBit(bits, p) ==
  LET q == CHOOSE c \in p..(p + Cardinality(bits) + 1) :
             c \notin bits /\ \A b \in p..(c - 1) : b \in bits
  IN  (bits \ (p..(q - 1))) \cup {q}

\* Number(bigint): the nearest number with MANTISSA_BITS significant bits,
\* ties to even.
toNumber(bits) ==
  IF bits = {} \/ highestBit(bits) < MANTISSA_BITS THEN bits
  ELSE LET cut == highestBit(bits) - (MANTISSA_BITS - 1)
           kept == {b \in bits : b >= cut}
           half == (cut - 1) \in bits
           sticky == \E b \in bits : b < cut - 1
       IN  IF half /\ (sticky \/ cut \in bits) THEN addBit(kept, cut) ELSE kept

\* A JS value holding an integer: a number or a bigint.
NumberOf(bits) == [type |-> "number", bits |-> bits]
BigIntOf(bits) == [type |-> "bigint", bits |-> bits]

\* buf.writeUIntBE of a value on size bytes, as the bytes written.
byteOf(bits, k) ==
  (IF (8 * k) \in bits THEN 1 ELSE 0) + (IF (8 * k + 1) \in bits THEN 2 ELSE 0)
    + (IF (8 * k + 2) \in bits THEN 4 ELSE 0) + (IF (8 * k + 3) \in bits THEN 8 ELSE 0)
    + (IF (8 * k + 4) \in bits THEN 16 ELSE 0) + (IF (8 * k + 5) \in bits THEN 32 ELSE 0)
    + (IF (8 * k + 6) \in bits THEN 64 ELSE 0) + (IF (8 * k + 7) \in bits THEN 128 ELSE 0)
writeUIntBE(bits, size) == [i \in 1..size |-> byteOf(bits, size - i)]

\* buf.readUIntBE of size bytes, as the value read.
readUIntBE(bytes) ==
  {b \in 0..(8 * Len(bytes) - 1) : bitSet(bytes[Len(bytes) - (b \div 8)], b % 8)}

\* The base58 alphabet of bs58.
ALPHABET ==
  <<"1", "2", "3", "4", "5", "6", "7", "8", "9", "A", "B", "C", "D", "E", "F", "G", "H", "J",
    "K", "L", "M", "N", "P", "Q", "R", "S", "T", "U", "V", "W", "X", "Y", "Z", "a", "b", "c",
    "d", "e", "f", "g", "h", "i", "j", "k", "m", "n", "o", "p", "q", "r", "s", "t", "u", "v",
    "w", "x", "y", "z">>

RECURSIVE leadingZeros(_, _)
leadingZeros(digits, zero) ==
  IF digits = <<>> \/ Head(digits) # zero THEN 0 ELSE 1 + leadingZeros(Tail(digits), zero)

\* One long division of a big-endian digit string in base from by to.
RECURSIVE divide(_, _, _, _, _)
divide(digits, from, to, carry, quotient) ==
  IF digits = <<>> THEN [q |-> quotient, r |-> carry]
  ELSE LET cur == carry * from + Head(digits)
       IN  divide(Tail(digits), from, to, cur % to,
                  IF quotient = <<>> /\ cur \div to = 0 THEN quotient
                  ELSE Append(quotient, cur \div to))

\* A big-endian digit string in base from, in base to, without leading zeros.
RECURSIVE convertBase(_, _, _)
convertBase(digits, from, to) ==
  IF \A i \in 1..Len(digits) : digits[i] = 0 THEN <<>>
  ELSE LET d == divide(digits, from, to, 0, <<>>)
       IN  Append(convertBase(d.q, from, to), d.r)

\* bs58.encode(buf): a "1" for each leading zero byte, then the digits.
bs58Encode(buf) ==
  LET digits == convertBase(buf, 256, 58)
  IN  [i \in 1..leadingZeros(buf, 0) |-> ALPHABET[1]]
        \o [i \in 1..Len(digits) |-> ALPHABET[digits[i] + 1]]

\* bs58.decode(code): a zero byte for each leading "1", then the bytes.
bs58Decode(code) ==
  LET digits == [i \in 1..Len(code) |-> (CHOOSE k \in 1..58 : ALPHABET[k] = code[i]) - 1]
  IN  [i \in 1..leadingZeros(code, ALPHABET[1]) |-> 0] \o convertBase(digits, 58, 256)

\* encodeDepositCode(secret, nullifier, chunkId, amount); BigInt(amount) is
\* the amount's integer.
encodeDepositCode(secret, nullifier, chunkId, amount) ==
  bs58Encode(<<CURRENT_VERSION>> \o nullifier \o secret
               \o writeUIntBE(chunkId.bits, CHUNK_ID_SIZE) \o writeUIntBE(amount.bits, AMOUNT_SIZE))

\* decodeDepositCode(code), or the error it throws.
decodeDepositCode(code) ==
  LET buf == bs58Decode(code)
      offset == VERSION_BYTE_SIZE
  IN  IF Len(buf) < VERSION_BYTE_SIZE THEN [error |-> "too short"]
      ELSE IF buf[1] # 1 THEN [error |-> "unsupported version"]
      ELSE IF Len(buf) # V1_TOTAL_SIZE THEN [error |-> "length"]
      ELSE [version |-> buf[1],
            nullifier |-> SubSeq(buf, offset + 1, offset + NULLIFIER_SIZE),
            secret |-> SubSeq(buf, offset + NULLIFIER_SIZE + 1,
                              offset + NULLIFIER_SIZE + SECRET_SIZE),
            chunkId |->
              NumberOf(readUIntBE(SubSeq(buf, offset + NULLIFIER_SIZE + SECRET_SIZE + 1,
                                         offset + NULLIFIER_SIZE + SECRET_SIZE + CHUNK_ID_SIZE))),
            amount |->
              NumberOf(toNumber(readUIntBE(
                SubSeq(buf, offset + NULLIFIER_SIZE + SECRET_SIZE + CHUNK_ID_SIZE + 1,
                       V1_TOTAL_SIZE))))]

\* The inputs of the codec: random bytes, chunk ids in u32, amounts in u64 as
\* numbers (at most MANTISSA_BITS significant bits) and as bigints.
Blobs == {<<0, 0>>, <<1, 128>>, <<255, 255>>}
CodeChunkIds == {NumberOf({}), NumberOf(pow2(0)), NumberOf({3, 5, 6, 7, 8, 9}), NumberOf(allBits(0, 31))}
CodeAmounts ==
  {NumberOf({}), NumberOf(pow2(0)), NumberOf({6, 9, 14, 16, 17, 18, 19}), NumberOf(pow2(40)),
   NumberOf(allBits(0, 52)), NumberOf(pow2(53)), NumberOf({53, 1}), NumberOf(pow2(63)),
   NumberOf(allBits(11, 63)), BigIntOf(pow2(0)), BigIntOf(allBits(0, 52))}
CodeBigAmounts == {BigIntOf({53, 0}), BigIntOf({53, 1, 0}), BigIntOf(allBits(0, 63))}

\* decodeDepositCode(encodeDepositCode(secret, nullifier, chunkId, amount))
RoundTrip(secret, nullifier, chunkId, amount) ==
  /\ probe = NoProbe
  /\ LET code == encodeDepositCode(secret, nullifier, chunkId, amount)
     IN  probe' = [fn |-> "decodeDepositCode", secret |-> secret, nullifier |-> nullifier,
                   chunkId |-> chunkId, amount |-> amount, code |-> code,
                   decoded |-> decodeDepositCode(code)]
  /\ UNCHANGED <<cryptoVars, outsideLib>>

\* The codec on amounts a number holds exactly.
NextCodecSafe ==
  \E secret \in Blobs, nullifier \in Blobs, chunkId \in CodeChunkIds, amount \in CodeAmounts :
    RoundTrip(secret, nullifier, chunkId, amount)

\* The codec on every amount.
NextCodec ==
  \E secret \in Blobs, nullifier \in Blobs, chunkId \in CodeChunkIds, amount \in CodeAmounts \cup CodeBigAmounts :
    RoundTrip(secret, nullifier, chunkId, amount)

(***************************************************************************)
(* lib/crypto.js: the shared Poseidon instance                             *)
(***************************************************************************)

\* null, for poseidon and for initPromise; an instance and the promise of the
\* buildPoseidon() call that makes it carry the number of that call.
null == 0

\* buildPoseidon() is called at most MaxBuilds times in the model.
MaxBuilds == 2

\* No getPoseidon() or initPoseidon() call of the task is running.
NoGetter == [pc |-> "idle", fn |-> "none", awaits |-> null, got |-> null]

\* The promise of the k-th buildPoseidon() call: pending until the library has
\* built the instance or failed.
promiseState(k) ==
  IF probe.fn = "buildPoseidon" /\ k \in DOMAIN probe.promises THEN probe.promises[k] ELSE "none"

\* A getPoseidon that does not look at initPromise.
getPoseidonNoWait(p, ip) == IF p # null THEN "return" ELSE "build"

\* The branch getPoseidon takes, from poseidon and initPromise.
getPoseidonBranch(p, ip) ==
  IF p # null THEN "return" ELSE IF ip # null THEN "wait" ELSE "build"

\* getPoseidon() or initPoseidon() is called and runs to its first await, or
\* to its return when the instance is there.
getPoseidon(t, fn) ==
  /\ getter[t].pc = "idle"
  /\ LET branch == getPoseidonBranch(poseidon, initPromise)
     IN  \/ /\ branch = "return"
            /\ getter' = [getter EXCEPT ![t] = [pc |-> "done", fn |-> fn, awaits |-> null,
                                                got |-> poseidon]]
            /\ UNCHANGED <<poseidon, initPromise, builds, probe>>
         \/ /\ branch = "wait"
            /\ getter' = [getter EXCEPT ![t] = [pc |-> "awaitInit", fn |-> fn,
                                                awaits |-> initPromise, got |-> null]]
            /\ UNCHANGED <<poseidon, initPromise, builds, probe>>
         \/ /\ branch = "build"
            /\ builds < MaxBuilds
            /\ builds' = builds + 1
            /\ initPromise' = builds + 1
            /\ probe' = [fn |-> "buildPoseidon",
                         promises |-> [k \in 1..(builds + 1) |->
                                         IF k = builds + 1 THEN "pending" ELSE promiseState(k)]]
            /\ getter' = [getter EXCEPT ![t] = [pc |-> "awaitBuild", fn |-> fn,
                                                awaits |-> builds + 1, got |-> null]]
            /\ UNCHANGED poseidon
  /\ UNCHANGED outsideLib

\* circomlibjs finishes a buildPoseidon() call: its promise is fulfilled with
\* the new instance, or rejected.
buildSettles(k, to) ==
  /\ promiseState(k) = "pending"
  /\ probe' = [probe EXCEPT !.promises[k] = to]
  /\ UNCHANGED <<cryptoVars, outsideLib>>

\* The call that started the build goes on after `await initPromise`: it
\* stores the instance, clears initPromise and returns; a rejected build throws.
resumeBuilder(t) ==
  /\ getter[t].pc = "awaitBuild"
  /\ promiseState(getter[t].awaits) \in {"fulfilled", "rejected"}
  /\ IF promiseState(getter[t].awaits) = "fulfilled"
       THEN /\ poseidon' = getter[t].awaits
            /\ initPromise' = null
            /\ getter' = [getter EXCEPT ![t].pc = "done", ![t].got = getter[t].awaits]
       ELSE /\ getter' = [getter EXCEPT ![t].pc = "failed"]
            /\ UNCHANGED <<poseidon, initPromise>>
  /\ UNCHANGED <<builds, probe, outsideLib>>

\* A call that found a build in progress goes on after `await initPromise`;
\* the reactions of a promise run in the order they were registered, so the
\* call that started the build has gone on before.
resumeWaiter(t) ==
  /\ getter[t].pc = "awaitInit"
  /\ promiseState(getter[t].awaits) \in {"fulfilled", "rejected"}
  /\ \A u \in Tasks : ~(getter[u].pc = "awaitBuild" /\ getter[u].awaits = getter[t].awaits)
  /\ getter' = [getter EXCEPT ![t].pc = IF promiseState(getter[t].awaits) = "fulfilled"
                                          THEN "done" ELSE "failed",
                              ![t].got = IF promiseState(getter[t].awaits) = "fulfilled"
                                           THEN getter[t].awaits ELSE null]
  /\ UNCHANGED <<poseidon, initPromise, builds, probe, outsideLib>>

\* The caller has taken the result (or the error) of its call.
getterReturns(t) ==
  /\ getter[t].pc \in {"done", "failed"}
  /\ getter' = [getter EXCEPT ![t] = NoGetter]
  /\ UNCHANGED <<poseidon, initPromise, builds, probe, outsideLib>>

NextPoseidon ==
  \/ \E t \in Tasks, fn \in {"getPoseidon", "initPoseidon"} : getPoseidon(t, fn)
  \/ \E k \in 1..MaxBuilds, to \in {"fulfilled", "rejected"} : buildSettles(k, to)
  \/ \E t \in Tasks : resumeBuilder(t)
  \/ \E t \in Tasks : resumeWaiter(t)
  \/ \E t \in Tasks : getterReturns(t)

(***************************************************************************)
(* Environment: the process dies, the disk fails                           *)
(***************************************************************************)

\* The process is killed and started again: every call in flight is gone, all
\* descriptors are closed, the RAM cache is empty; the two files stay as they are.
Restart ==
  /\ st' = [t \in Tasks |-> "none"]
  /\ call' = [t \in Tasks |-> NoCall]
  /\ loaded' = [t \in Tasks |-> <<>>]
  /\ result' = [t \in Tasks |-> NoRecord]
  /\ fd' = [t \in Tasks |-> NoFile]
  /\ inode' = Release(inode, storageIno, tmpIno, [t \in Tasks |-> NoFile])
  /\ pc' = [t \in Tasks |-> "idle"]
  /\ dep' = [t \in Tasks |-> NoDeposit]
  /\ outcome' = [t \in Tasks |-> "none"]
  /\ deposits' = <<>>
  /\ faulted' = TRUE

CrashBook ==
  /\ \E t \in Tasks : pc[t] # "idle"
  /\ Restart
  /\ UNCHANGED <<storageIno, tmpIno, diskFault, nextCode, accepted, added, marked,
                 overlapped, premarked, ncalls, relayerVars, p2pVars>>

\* The agent's process dies.  A withdraw whose pre-mark had been saved is cut off
\* before or during its POST.
Crash ==
  /\ \E t \in Tasks : pc[t] # "idle"
  /\ Restart
  /\ premarked' = premarked \cup
       {dep[t].code : t \in {u \in Tasks : \/ pc[u] = "w_post" /\ dep[u].premark
                                           \/ pc[u] = "w_premark" /\ st[u] = "saved"}}
  /\ UNCHANGED <<storageIno, tmpIno, diskFault, nextCode, accepted, added, marked,
                 overlapped, ncalls, relayerVars, p2pVars>>

\* Reads of deposits.json start or stop failing.
DiskFault ==
  /\ storageIno # NoFile
  /\ diskFault' = ~diskFault
  /\ UNCHANGED <<inode, storageIno, tmpIno, callVars, agentVars, histVars, relayerVars, p2pVars>>

(***************************************************************************)
(* Initial state and the specifications                                    *)
(***************************************************************************)

Init ==
  /\ inode = [i \in InodeIds |-> TornContent]
  /\ storageIno = NoFile
  /\ tmpIno = NoFile
  /\ diskFault = FALSE
  /\ st = [t \in Tasks |-> "none"]
  /\ call = [t \in Tasks |-> NoCall]
  /\ loaded = [t \in Tasks |-> <<>>]
  /\ fd = [t \in Tasks |-> NoFile]
  /\ result = [t \in Tasks |-> NoRecord]
  /\ pc = [t \in Tasks |-> "idle"]
  /\ dep = [t \in Tasks |-> NoDeposit]
  /\ deposits = <<>>
  /\ nextCode = 1
  /\ accepted = {}
  /\ outcome = [t \in Tasks |-> "none"]
  /\ added = {}
  /\ marked = {}
  /\ faulted = FALSE
  /\ overlapped = FALSE
  /\ premarked = {}
  /\ ncalls = 0
  /\ queue = <<>>
  /\ processing = FALSE
  /\ processTimer = NoTimer
  /\ loops = [l \in LoopIds |-> FreeLoop]
  /\ now = 0
  /\ nextId = 1
  /\ requestCounts = [ip \in IPs |-> <<>>]
  /\ response = NoResponse
  /\ reqLog = [ip \in IPs |-> <<>>]
  /\ nreq = 0
  /\ lastExec = [n |-> 0, item |-> 0, ok |-> TRUE]
  /\ trees = [c \in Chunks |-> NoTree]
  /\ path = NoPath
  /\ chain = [c \in Chunks |-> <<>>]
  /\ cache = [c \in Chunks |-> NoTree]
  /\ peerTree = [c \in Chunks |-> NoTree]
  /\ lastLoad = [n |-> 0, chunk |-> 0, via |-> "none", read |-> <<>>]
  /\ dht = [n \in Nodes |-> NoDht]
  /\ buckets = [n \in Nodes |-> EmptyBuckets]
  /\ values = [n \in Nodes |-> NoValues]
  /\ lookup = [n \in Nodes |-> NoLookup]
  /\ pendingRequests = [n \in Nodes |-> EmptyMap]
  /\ requests = [tx \in TxIds |-> NoRequest]
  /\ nextTx = 1
  /\ op = [n \in Nodes |-> NoOp]
  /\ bootstrapped = [n \in Nodes |-> FALSE]
  /\ announced = [n \in Nodes |-> 0]
  /\ found = [n \in Nodes |-> NotFound]
  /\ probe = NoProbe
  /\ poseidon = null
  /\ initPromise = null
  /\ builds = 0
  /\ getter = [t \in Tasks |-> NoGetter]
  /\ isRunning = FALSE
  /\ mixing = [l \in MixLoops |-> NoMix]
  /\ updating = [u \in Updaters |-> NoUpdate]

\* The agent: concurrent deposit() and withdraw() calls, relayer answers, crashes.
Next ==
  \/ \E t \in Tasks, a \in Amounts : Deposit(t, a)
  \/ \E t \in Tasks : DepositFails(t)
  \/ \E t \in Tasks : DepositSubmitted(t)
  \/ \E t \in Tasks : DepositStored(t)
  \/ \E t \in Tasks, a \in Amounts : Withdraw(t, a)
  \/ \E t \in Tasks : WithdrawFound(t)
  \/ \E t \in Tasks : WithdrawProofFails(t)
  \/ \E t \in Tasks, peers \in 0..MaxPeers : WithdrawPreMark(t, peers)
  \/ \E t \in Tasks : WithdrawPost(t)
  \/ \E t \in Tasks : RelayerAccepts(t)
  \/ \E t \in Tasks : RelayerFails(t)
  \/ \E t \in Tasks : WithdrawDone(t)
  \/ \E t \in Tasks : InStorageCall(t) /\ StorageStep(t)
  \/ Crash

Spec == Init /\ [][Next]_vars

\* One DepositStorage used by concurrent callers, with crashes.
NextBook ==
  \/ \E t \in Tasks, a \in Amounts : ApiAdd(t, a)
  \/ \E t \in Tasks, a \in Amounts \cup {NoAmount} : ApiFind(t, a)
  \/ \E t \in Tasks, c \in Codes, r \in {"PENDING", "QUEUED"} : ApiMark(t, c, r)
  \/ \E t \in Tasks : pc[t] = "api" /\ StorageStep(t)
  \/ \E t \in Tasks : ApiReturn(t)
  \/ CrashBook

SpecBook == Init /\ [][NextBook]_vars

\* One DepositStorage used by one caller at a time, with crashes.
NextBookSeq ==
  \/ /\ \A u \in Tasks : pc[u] = "idle"
     /\ \/ \E t \in Tasks, a \in Amounts : ApiAdd(t, a)
        \/ \E t \in Tasks, a \in Amounts \cup {NoAmount} : ApiFind(t, a)
        \/ \E t \in Tasks, c \in Codes, r \in {"PENDING", "QUEUED"} : ApiMark(t, c, r)
  \/ \E t \in Tasks : pc[t] = "api" /\ StorageStep(t)
  \/ \E t \in Tasks : ApiReturn(t)
  \/ CrashBook

SpecBookSeq == Init /\ [][NextBookSeq]_vars

\* The same, on a disk whose reads can fail.
NextBookFault == NextBookSeq \/ DiskFault

SpecBookFault == Init /\ [][NextBookFault]_vars

\* One RelayerService: submissions, its queue processor, stop(), the clock.
SpecRelayer == Init /\ [][NextRelayer]_vars

\* The HTTP front of the relayer under load from several addresses: requests that
\* are answered without being queued, and the clock.
NextRateLimit ==
  \/ \E ip \in IPs, b \in {WithdrawBody(1, 0), OtherBody("unparseable")} :
       handleSubmit(ip, b, MinDelay)
  \/ Tick

SpecRateLimit == Init /\ [][NextRateLimit]_vars

\* A relayer that holds one queued entry receives a POST /relayer/submit with any
\* kind of body.
NextSubmit ==
  \/ nreq = 0 /\ handleSubmit("ip1", ValidBody, MaxDelay)
  \/ /\ nreq = 1
     /\ \E b \in Bodies \cup {OtherBody("toolarge"), OtherBody("unparseable")} :
          handleSubmit("ip2", b, MinDelay)

SpecSubmit == Init /\ [][NextSubmit]_vars

\* A RelayerService that is never stopped.  Time is bounded by MaxTime, so an
\* entry is accepted, and a failed one re-armed, only while its executeAt can
\* still be reached: every entry's executeWithdraw eventually succeeds.
NextRunning ==
  \/ \E d \in MinDelay..MaxDelay : now + d <= MaxTime /\ handleSubmit("ip1", ValidBody, d)
  \/ \E l \in LoopIds : TimerFires(l)
  \/ \E l \in LoopIds : ExecSucceeds(l)
  \/ \E l \in LoopIds : now + RetryDelay <= MaxTime /\ ExecFails(l)
  \/ Tick

\* Time passes, a due timer fires, and a pending executeWithdraw settles.
FairRunning ==
  /\ WF_vars(Tick)
  /\ \A l \in LoopIds : WF_vars(TimerFires(l)) /\ WF_vars(ExecSucceeds(l))

SpecRunning == Init /\ [][NextRunning]_vars /\ FairRunning

\* The HTTP front under load, with bodies of every kind: over the size limit,
\* unparseable, and one the validation accepts.
NextOrder ==
  \/ \E ip \in IPs, b \in {OtherBody("toolarge"), OtherBody("unparseable"), WithdrawBody(1, 0)} :
       handleSubmit(ip, b, MinDelay)
  \/ Tick

SpecOrder == Init /\ [][NextOrder]_vars

\* One agent's replica of a chunk and its cache file, of any release.
SpecCache == Init /\ [][NextCache]_vars

\* One MerkleTreeBuilder whose callers pass any leaf sequence.
SpecRebuild == Init /\ [][NextRebuild]_vars

\* One MerkleTreeBuilder: leaves arrive one by one, paths are asked for.
SpecTree == Init /\ [][NextTree]_vars

\* One agent's replica of a chunk: the chain grows, peers serve their replica,
\* the agent calls loadTree and is restarted.
SpecLoad == Init /\ [][NextLoad]_vars

\* One DHT node among peers that answer anything or nothing.
SpecLookup == Init /\ [][NextLookup]_vars
SpecLookupFair == Init /\ [][NextLookupFixed]_vars /\ FairLookup

\* One DHT node, the requests it sends and the messages it receives.
SpecPending == Init /\ [][NextPending]_vars

\* Two DHT nodes that bootstrap, announce and look for agents.
SpecAgents == Init /\ [][NextAgents]_vars

\* One k-bucket and the nodes added to it.
SpecBucket == Init /\ [][NextBucket]_vars

\* bucketIndex on pairs of ids, addNode on a routing table.
SpecIndex == Init /\ [][NextIndex]_vars

\* _validatePeer on any peer.
SpecValidate == Init /\ [][NextValidate]_vars

\* Overlapping updateTree calls and readers of the replica.
SpecUpdate == Init /\ [][NextUpdate]_vars

\* The auto-mix loops of one agent.
SpecMix == Init /\ [][NextMix]_vars /\ FairMix

\* One TCP connection and its framer.
SpecFramer == Init /\ [][NextFramer]_vars

\* The deposit-code codec.
SpecCodec == Init /\ [][NextCodec]_vars
SpecCodecSafe == Init /\ [][NextCodecSafe]_vars

\* The routing table and everything that adds to it.
SpecPeers == Init /\ [][NextPeers]_vars

\* Tasks that call getPoseidon() and initPoseidon() at any time.
SpecPoseidon == Init /\ [][NextPoseidon]_vars

(***************************************************************************)
(* Properties of the withdrawal lifecycle                                  *)
(***************************************************************************)

\* The withdraw() of task t has selected its deposit and is still running.
Selected(t) == pc[t] \in {"w_tree", "w_premark", "w_post", "w_final"}

\* C1: with calls run one after another (in one process or across restarts), once
\* a relayer has accepted the withdraw of a deposit, no later withdraw() selects
\* that deposit again.
C1_NoReselectAfterAccept ==
  ~overlapped => \A t \in Tasks : pc[t] = "w_tree" => dep[t].code \notin accepted

\* C2: whenever withdraw() issues POST /relayer/submit, the deposit's record in the
\* deposit book already has withdrawn = true.
C2_PreMarkBeforePost ==
  [][\A t \in Tasks : (pc[t] # "w_post" /\ pc'[t] = "w_post") =>
        dep'[t].code \in WithdrawnCodesOf(Book)]_vars

\* C3: when the relayer POST fails, withdraw() returns with the withdrawn flag
\* rolled back: withdrawn = false in the deposit book and the in-memory flag at
\* its value from before the attempt.
C3_RollbackOnPostFailure ==
  [][\A t \in Tasks : (pc[t] = "w_post" /\ outcome'[t] = "postfail") =>
        /\ dep[t].code \notin WithdrawnCodesOf(Book')
        /\ dep[t].ram # 0 => deposits'[dep[t].ram].withdrawn = dep[t].original]_vars

\* C4: a deposit whose pre-mark was saved before the process crashed is never
\* returned by findUnwithdrawnDeposit after the restart.
C4_PreMarkSurvivesCrash ==
  \A t \in Tasks :
    (call[t].name = "find" /\ st[t] = "ret") => result[t].code \notin premarked

\* C5: two withdraw() calls that overlap never hold the same deposit.
C5_OverlappingWithdrawsDistinct ==
  \A t \in Tasks, u \in Tasks :
    (t # u /\ Selected(t) /\ Selected(u)) => dep[t].code # dep[u].code

(***************************************************************************)
(* Properties of the deposit book                                          *)
(***************************************************************************)

Quiescent == \A t \in Tasks : pc[t] = "idle"

\* C6: concurrently issued addDeposit and markAsWithdrawn calls that all return
\* successfully leave a file that holds every added record and every withdrawn
\* mark, as if they had run one at a time.
C6_NoLostUpdate ==
  (Quiescent /\ ~faulted) =>
    /\ added \subseteq CodesOf(Book)
    /\ marked \subseteq WithdrawnCodesOf(Book)

\* C7: at every instant deposits.json holds a complete array, never a partially
\* written file, also while two saveDeposits calls overlap.
C7_FileAlwaysComplete == storageIno # NoFile => inode[storageIno].ok

\* C8: every record an addDeposit call has added is still in the file after any
\* sequence of calls, including ones whose read of the file fails.
C8_NoRecordRemoved == added \subseteq CodesOf(Book)

\* The oldest record of `recs` that is not withdrawn and has the amount asked for.
EarliestUnwithdrawn(recs, amount) ==
  LET M == {i \in 1..Len(recs) :
              ~recs[i].withdrawn /\ (amount = NoAmount \/ recs[i].amount = amount)}
  IN  IF M = {} THEN NoRecord ELSE recs[CHOOSE i \in M : \A j \in M : i <= j]

\* The step in which findUnwithdrawnDeposit gets its array and returns.
FindReturns(t) == call'[t].name = "find" /\ st[t] # "ret" /\ st'[t] = "ret"

\* C9: findUnwithdrawnDeposit(amount) returns the earliest-added record with
\* withdrawn = false and the given amount (any amount when omitted), null when the
\* book has none; never a withdrawn record; and it leaves the book unchanged.
C9_FindEarliestUnwithdrawn ==
  [][\A t \in Tasks : FindReturns(t) =>
        /\ result'[t] = EarliestUnwithdrawn(Book, call'[t].amount)
        /\ ~result'[t].withdrawn
        /\ UNCHANGED <<inode, storageIno, tmpIno>>]_vars

\* A find has skipped an older record and returned a later one.
C9_Witness ==
  \E t \in Tasks :
    /\ call[t].name = "find" /\ st[t] = "ret"
    /\ result[t].code # 0
    /\ Len(Book) >= 2
    /\ Book[1].code # result[t].code

(***************************************************************************)
(* Properties of the relayer queue                                         *)
(***************************************************************************)

\* C10: at most one processQueue loop is active and at most one executeWithdraw
\* call is in flight, for every interleaving of submissions, processor steps and
\* stop().
C10_SingleProcessor ==
  /\ Cardinality({l \in LoopIds : loops[l].pc # "free"}) <= 1
  /\ Cardinality({l \in LoopIds : loops[l].pc = "exec"}) <= 1

\* The entries of a queue, whatever their order.
Entries(q) == {q[i] : i \in 1..Len(q)}
QueuedIds(q) == {q[i].id : i \in 1..Len(q)}

\* A step in which an executeWithdraw call completed.
ExecCompleted == lastExec'.n # lastExec.n

\* C11: an entry leaves the queue only in a step in which executeWithdraw for that
\* entry returned successfully; when executeWithdraw fails for a queued entry, the
\* entry is still queued afterwards with executeAt = failure time + 60 s, and
\* every other entry is still queued, unchanged.
C11_EntryLeavesOnlyOnSuccess ==
  [][/\ \A id \in QueuedIds(queue) \ QueuedIds(queue') :
          ExecCompleted /\ lastExec'.ok /\ lastExec'.item = id
     /\ (ExecCompleted /\ ~lastExec'.ok) =>
          /\ Len(queue') = Len(queue)
          /\ \A it \in Entries(queue) :
                IF it.id = lastExec'.item
                THEN [it EXCEPT !.executeAt = now + RetryDelay] \in Entries(queue')
                ELSE it \in Entries(queue')]_vars

\* executeWithdraw failed for an entry while another entry was queued; the failed
\* entry is queued with its new executeAt.
C11_Witness ==
  /\ ~lastExec.ok
  /\ Len(queue) = 2
  /\ \E it \in Entries(queue) : it.id = lastExec.item /\ it.executeAt = now + RetryDelay

(***************************************************************************)
(* Properties of the relayer's HTTP front                                  *)
(***************************************************************************)

\* Admitted requests of ip whose timestamp lies within the last RateWindow.
RecentlyAdmitted(ip) ==
  Cardinality({i \in 1..Len(reqLog[ip]) : now - reqLog[ip][i] < RateWindow})

\* C12: a request from an IP is admitted (not answered 429) iff fewer than
\* RateRequests admitted requests from that IP have timestamps within the last
\* RateWindow; rejected requests and requests from other IPs do not count.
C12_SlidingWindow ==
  [][nreq' # nreq =>
       (response'.status # 429 <=> RecentlyAdmitted(response'.ip) < RateRequests)]_vars

\* An IP had a request rejected and, after its window had passed, one more
\* request than the limit admitted.
C12_Witness ==
  /\ response.ip = "ip1"
  /\ response.status # 429
  /\ Len(reqLog["ip1"]) = RateRequests + 1
  /\ reqLog["ip2"] = <<>>
  /\ nreq > Len(reqLog["ip1"])

\* A request that got past the rate limit with a body JSON.parse accepted.
Validated == nreq' # nreq /\ response'.status # 429 /\ response'.body.kind = "json"

WellFormedRest(b) ==
  /\ b.recipient.type = "string" /\ b.recipient.len \in 32..44 /\ b.recipient.base58
  /\ b.amount.type = "number" /\ b.amount.int /\ b.amount.val \in 1..MaxAmount
  /\ b.chunkId.type = "number" /\ b.chunkId.int /\ b.chunkId.val \in 0..MaxChunkId

\* The five proof properties are present / present with a truthy value.
ProofPresent(b) ==
  b.proof.type = "object" /\ ProofFields \subseteq (b.proof.truthy \cup b.proof.falsy)
ProofTruthy(b) == b.proof.type = "object" /\ ProofFields \subseteq b.proof.truthy

C14_WithdrawBodyAccepted ==
  (/\ response.body.kind = "json"
   /\ response.body.proof = FormattedProof
   /\ response.body = WithdrawBody(response.body.amount.val, response.body.chunkId.val)
   /\ response.body.amount.val \in 1..MaxAmount
   /\ response.body.chunkId.val \in 0..MaxChunkId
   /\ response.status # 429)
    => response.status = 200

(***************************************************************************)
(* Properties of the Merkle tree engine                                    *)
(***************************************************************************)

\* C15: the root stored after inserting leaves one by one with updateTree, from
\* an empty engine, equals the root buildTree stores for the same leaves.
C15_UpdateEqualsBuild ==
  \A c \in Chunks :
    trees[c].loaded => trees[c].root = buildTree(NoTree, trees[c].leaves).data.root

\* A full chunk whose leaves were inserted one by one.
C15_Witness ==
  \E c \in Chunks :
    /\ Len(trees[c].leaves) = LEAVES_CAPACITY
    /\ trees[c].leaves[1] # trees[c].leaves[2]
    /\ trees[c].leaves[LEAVES_CAPACITY] # ZERO

RECURSIVE FoldPath(_, _, _)
\* hash(sibling, cur) when the bit is 1, hash(cur, sibling) when it is 0.
FoldPath(cur, p, level) ==
  IF level > TREE_HEIGHT THEN cur
  ELSE FoldPath(IF p.pathIndices[level] = 1
                THEN hash(BigInt(p.pathElements[level]), cur)
                ELSE hash(cur, BigInt(p.pathElements[level])),
                p, level + 1)

C17_ReplicaEqualsChainRead ==
  [][lastLoad'.n # lastLoad.n =>
       trees'[lastLoad'.chunk].leaves = lastLoad'.read]_vars

\* The distances to the target of the nodes of a list.
Distances(target, s) == {distance(target, s[i]) : i \in 1..Len(s)}

\* C18: when a lookup has returned, some returned node is at least as close to
\* the target as every node of the initial shortlist, whatever the peers
\* answered and whichever calls failed.
C18_LookupNotFarther ==
  \A n \in Nodes :
    lookup[n].pc = "done" =>
      \A d0 \in Distances(lookup[n].target, lookup[n].initial) :
        \E d \in Distances(lookup[n].target, lookup[n].result) : d <= d0

\* A lookup returned K nodes after a round in which replies brought nodes
\* closer than the whole initial shortlist, so the shortlist was cut.
C18_Witness ==
  /\ lookup["A"].pc = "done"
  /\ Len(lookup["A"].initial) = ALPHA
  /\ Len(lookup["A"].result) = K
  /\ \A d0 \in Distances(lookup["A"].target, lookup["A"].initial) :
       \E d \in Distances(lookup["A"].target, lookup["A"].result) : d < d0


\* The requests sendRequest has been called for.
Issued == {tx \in TxIds : requests[tx].promise # "none"}

\* C19: a request completes at most once; it is resolved only by a message that
\* carries its own txId and rejected only by its timeout; once it has completed
\* its entry is no longer in the pending-request map of any node.
C19_CompletesOnceByTxId ==
  \A tx \in Issued :
    /\ requests[tx].calls <= 1
    /\ requests[tx].promise = "resolved" =>
         requests[tx].by = "message" /\ requests[tx].msgTx = tx
    /\ requests[tx].promise = "rejected" => requests[tx].by = "timeout"
    /\ requests[tx].promise # "pending" =>
         \A n \in Nodes : tx \notin DOMAIN pendingRequests[n]


\* C20: with B bootstrapped from A and both nodes having announced, a
\* findAgents() call of either node returns a list that holds the announce
\* record of the other node.
C20_AgentsFindEachOther ==
  \A n \in Nodes :
    found[n].done /\ found[n].asked =>
      \A m \in Nodes \ {n} : \E v \in found[n].agents : v.id = dht[m].id


\* C21: add(p) moves an entry with p's id to the tail, the others keeping
\* their order and the length staying the same; appends p when it is new and
\* the bucket holds fewer than K entries; leaves a full bucket as it is; so a
\* bucket never holds more than K entries, all with different ids.
C21_KBucketAdd ==
  probe.fn = "KBucket.add" =>
    LET b == probe.before
        a == probe.nodes
        p == probe.node
        known == \E i \in 1..Len(b) : b[i] = p
    IN  /\ known => /\ a = SelectSeq(b, LAMBDA x : x # p) \o <<p>>
                    /\ Len(a) = Len(b)
        /\ ~known /\ Len(b) < K => a = Append(b, p)
        /\ ~known /\ Len(b) >= K => a = b
        /\ Len(a) <= K
        /\ \A i, j \in 1..Len(a) : i # j => a[i] # a[j]

\* A new node was offered to a full bucket, which stayed as it was.
C21_Witness ==
  /\ probe.fn = "KBucket.add"
  /\ Len(probe.before) = K
  /\ \A i \in 1..K : probe.before[i] # probe.node
  /\ probe.nodes = probe.before


\* C26: however getPoseidon() and initPoseidon() calls interleave,
\* buildPoseidon is called at most once, a call that returns has the instance
\* the module holds, and the instance the module holds is never replaced.
C26_PoseidonSingleton ==
  /\ [](builds <= 1)
  /\ [][/\ poseidon # null => poseidon' = poseidon
        /\ \A t \in Tasks :
             getter[t].pc # "done" /\ getter'[t].pc = "done" =>
               getter'[t].got # null /\ getter'[t].got = poseidon']_vars

\* Two calls overlapped: one started the build, the other waited for it, and
\* both have the instance.
C26_Witness ==
  /\ getter["t1"].pc = "done"
  /\ getter["t2"].pc = "done"
  /\ getter["t1"].fn = "getPoseidon"
  /\ getter["t2"].fn = "initPoseidon"
  /\ getter["t1"].got = poseidon
  /\ getter["t2"].got = poseidon
  /\ builds = 1


\* floor(log2 d) for d > 0
Log2Floor(d) == CHOOSE k \in 0..(ID_LENGTH * 8 - 1) : 2 ^ k <= d /\ d < 2 ^ (k + 1)

\* The bucket index of a distance between different ids is in range.
IndexInRange ==
  probe.fn = "bucketIndex" /\ probe.a # probe.b =>
    probe.index \in 0..(ID_LENGTH * 8 - 1)

\* addNode puts a peer in the bucket that bucketIndex names, and in no other.
AddNodePlaces ==
  probe.fn = "addNode" /\ probe.node # probe.self =>
    LET index == bucketIndex(distance(probe.self, probe.node))
        In(i) == \E k \in 1..Len(probe.buckets[i]) : probe.buckets[i][k] = probe.node
    IN  /\ index = Log2Floor(distance(probe.self, probe.node))
        /\ Len(probe.before[index]) < K => In(index)
        /\ \A i \in BucketIndexes \ {index} : ~In(i)

\* C22 as stated: for a # b the index of d = a XOR b is in range and equals the
\* top index minus floor(log2 d), and addNode uses that bucket.
C22_IndexAsStated ==
  /\ IndexInRange
  /\ probe.fn = "bucketIndex" /\ probe.a # probe.b =>
       probe.index = (ID_LENGTH * 8 - 1) - Log2Floor(valueOf(probe.dist))
  /\ AddNodePlaces

\* C22: for a # b the index of d = a XOR b is in range and equals
\* floor(log2 d), the position of the highest set bit of d counted from the
\* lowest bit, and addNode puts the peer in the bucket with that index.
C22_BucketIndex ==
  /\ IndexInRange
  /\ probe.fn = "bucketIndex" /\ probe.a # probe.b =>
       /\ probe.index = Log2Floor(valueOf(probe.dist))
       /\ probe.index = bucketIndex(valueOf(probe.dist))
  /\ AddNodePlaces

\* Two ids that differ only in the lowest bit: distance 1, bucket 0.
C22_Witness ==
  /\ probe.fn = "bucketIndex"
  /\ valueOf(probe.dist) = 1
  /\ probe.index = 0


\* C23: _validatePeer answers false for a missing or non-string host, for a
\* host in 10/8, 172.16/12 or 192.168/16, for a missing port or one outside
\* 1024..65535, and when the table already holds 5 peers of the peer's /24;
\* it answers true in every other case.
C23_ValidatePeer ==
  probe.fn = "_validatePeer" =>
    LET h == probe.peer.host
        o == h.octets
        badHost == h.kind \in {"missing", "number"}
        private == h.kind = "ipv4" /\ (o[1] = 10 \/ (o[1] = 172 /\ o[2] >= 16 /\ o[2] <= 31)
                                                 \/ (o[1] = 192 /\ o[2] = 168))
        badPort == probe.peer.port = NoPort \/ probe.peer.port \notin 1024..65535
        full == Cardinality({q \in probe.table :
                               q.host.kind = h.kind /\ SubSeq(q.host.octets, 1, 3) = SubSeq(o, 1, 3)}) >= 5
    IN  probe.result = ~(badHost \/ private \/ badPort \/ full)

\* A sixth peer of a /24 that holds five was refused.
C23_Witness ==
  /\ probe.fn = "_validatePeer"
  /\ probe.peer \in KnownPeers
  /\ probe.peer.host.octets[3] = 8
  /\ Cardinality({q \in probe.table : q.host.octets[3] = 8}) = 5
  /\ probe.result = FALSE

\* C24: every peer in the routing table passed the validator when it was
\* inserted, so the table never holds more than 5 peers of one /24, a private
\* host that is not loopback, or a port outside 1024..65535.
C24_TableValidated ==
  \A q \in TableOf(probe) :
    /\ validatePeerNoCap(q, {})
    /\ countFromSubnet(TableOf(probe), subnetOf(q.host)) <= MAX_NODES_PER_SUBNET


\* The values of a round trip are those encoded.
SameValues ==
  probe.fn = "decodeDepositCode" =>
    /\ probe.decoded.version = 1
    /\ probe.decoded.secret = probe.secret
    /\ probe.decoded.nullifier = probe.nullifier
    /\ probe.decoded.chunkId.bits = probe.chunkId.bits
    /\ probe.decoded.amount.bits = probe.amount.bits

\* C25: decodeDepositCode(encodeDepositCode(secret, nullifier, chunk_id,
\* amount)) returns version 1 and the same secret, nullifier, chunk_id and
\* amount, for every chunk_id in u32 and every amount in u64.
C25_RoundTrip == SameValues

\* C29: POST /relayer/submit tests the body size (413) before the rate limit
\* (429) before the validation (400): a body over 1 MiB is answered 413
\* whatever the state of the rate limit.
C29_SizeBeforeRateLimit ==
  response.body.kind = "toolarge" => response.status = 413

\* A step in which invocation l calls agent.executeWithdraw on an entry.
Calls(l) == loops'[l].pc = "exec" /\ loops'[l] # loops[l]

\* A step in which invocation l goes to sleep.
Sleeps(l) == loops'[l].pc = "sleep" /\ loops'[l] # loops[l]

\* C27: executeWithdraw is called for a queue entry only at a time not before the
\* entry's current executeAt; when no entry is ready the processor sleeps until
\* the earliest executeAt of the queue, and submits nothing before that.
C27_NotBeforeExecuteAt ==
  [][\A l \in LoopIds :
       /\ Calls(l) =>
            /\ \A it \in Entries(queue') : it.id = loops'[l].item => now' >= it.executeAt
            /\ \A k \in LoopIds : loops[k].pc = "sleep" => now' >= loops[k].wake
       /\ Sleeps(l) =>
            /\ \A it \in Entries(queue') : now' < it.executeAt
            /\ \E it \in Entries(queue') : loops'[l].wake = it.executeAt
            /\ \A it \in Entries(queue') : loops'[l].wake <= it.executeAt]_vars

\* C28: in a relayer that is not stopped and whose executeWithdraw eventually
\* succeeds, every entry that POST /relayer/submit accepted is eventually
\* submitted and removed from the queue, whether it was enqueued while the
\* processor slept, while it processed other entries, or as it went idle.
C28_EveryEntryProcessed ==
  \A id \in 1..MaxItems : (id \in QueuedIds(queue)) ~> (id \notin QueuedIds(queue))

\* The entry that was enqueued while the processor was busy with the first has
\* been submitted and removed, the first still being queued.
C28_Witness ==
  /\ lastExec.ok
  /\ lastExec.item = 2
  /\ QueuedIds(queue) = {1}

\* C30: when the pre-mark of the deposit book fails, withdraw() returns an error
\* and has sent no request to a relayer: no GET /relayer/status, no POST
\* /relayer/submit.
C30_NoNetworkBeforePreMark ==
  [][\A t \in Tasks : (pc[t] = "w_premark" /\ outcome'[t] = "error") =>
        dep[t].probes = 0 /\ pc'[t] # "w_post"]_vars

(***************************************************************************)
(* Properties of the replica under any caller                              *)
(***************************************************************************)

IsPrefix(s, t) == Len(s) <= Len(t) /\ SubSeq(t, 1, Len(s)) = s

\* C31: updateTree(chunk, newLeaves), called when the stored leaf sequence is
\* not a prefix of newLeaves (same or greater length, other content), rebuilds:
\* afterwards the stored root is the root buildTree gives for newLeaves.
C31_RebuildOnPrefixMismatch ==
  (/\ probe.fn = "updateTree"
   /\ probe.stored.loaded
   /\ Len(probe.newLeaves) >= Len(probe.stored.leaves)
   /\ ~IsPrefix(probe.stored.leaves, probe.newLeaves))
    => trees[probe.chunk].root = buildTree(NoTree, probe.newLeaves).data.root

\* C32: every loadTree path that installs or changes the replica (incremental
\* update, rebuild from cached leaves, peer fetch, full build from chain) has
\* written the resulting tree to the cache file when loadTree returns.
C32_CacheRefreshed ==
  [][(/\ lastLoad'.n # lastLoad.n
      /\ lastLoad'.via \in {"update", "leaves", "peer", "chain"})
       => /\ cache'[lastLoad'.chunk].loaded
          /\ cache'[lastLoad'.chunk] = trees'[lastLoad'.chunk]]_vars

(***************************************************************************)
(* Properties of the lookup loop                                           *)
(***************************************************************************)

\* The ids a round asks.
Asked(l) == {toQuery(l)[i] : i \in 1..Len(toQuery(l))}

\* C34: iterativeFindNode terminates whatever the peers do: it runs at most
\* maxRounds rounds, asks at most ALPHA peers per round, marks every asked peer
\* queried whether its call succeeded or failed, asks no id in two rounds, and
\* runs no round once the shortlist holds no unqueried peer.
C34_LookupTerminates ==
  /\ [](\A n \in Nodes : lookup[n].round <= maxRounds)
  /\ [][\A n \in Nodes :
          (lookup[n].pc = "loop" /\ lookup'[n].round # lookup[n].round /\ lookup'[n].pc = "loop") =>
            /\ Asked(lookup[n]) # {}
            /\ Len(toQuery(lookup[n])) <= ALPHA
            /\ Asked(lookup[n]) \cap lookup[n].queried = {}
            /\ lookup'[n].queried = lookup[n].queried \cup Asked(lookup[n])]_vars
  /\ \A n \in Nodes : (lookup[n].pc = "loop") ~> (lookup[n].pc = "done")

\* The round cap was reached while the shortlist still held an unqueried peer.
C34_Witness ==
  /\ lookup["A"].pc = "loop"
  /\ lookup["A"].round = maxRounds
  /\ toQuery(lookup["A"]) # <<>>

\* C35: the list a lookup returns holds no two entries with the same node id,
\* whatever the peers answered.
C35_ResultHasNoDuplicates ==
  \A n \in Nodes :
    lookup[n].pc = "done" =>
      \A i, j \in 1..Len(lookup[n].result) :
        lookup[n].result[i] = lookup[n].result[j] => i = j

\* C36: the RPC deadline of a request runs from the sendRequest call, also
\* while the connection to the peer is being established, and its expiry
\* rejects the caller and removes the txId; so every entry of the
\* pending-request map has its deadline running.
C36_DeadlineFromCall ==
  \A n \in Nodes : \A tx \in DOMAIN pendingRequests[n] :
    requests[tx].promise = "pending" /\ requests[tx].timer = "armed"

\* The ids of the node records in a routing table.
BucketIds(bk) == {allNodes(bk, 0)[i] : i \in 1..Len(allNodes(bk, 0))}

\* C37: a node record enters a k-bucket only when this node has received a
\* message from that peer: in a step that handles one message at most its
\* sender is inserted, and a lookup round inserts none but peers it asked; a
\* node merely listed in a NODES reply is not inserted.
C37_OnlyRespondersInserted ==
  [][\A n \in Nodes :
       LET new == BucketIds(buckets'[n]) \ BucketIds(buckets[n])
       IN  IF lookup[n].pc = "loop" /\ lookup'[n].round # lookup[n].round
           THEN new \subseteq Asked(lookup[n])
           ELSE Cardinality(new) <= 1]_vars

(***************************************************************************)
(* Properties of the message framing                                       *)
(***************************************************************************)

\* The frames that have arrived whole among the first frames sent, given the
\* bytes that have arrived.
RECURSIVE WholeFrames(_, _)
WholeFrames(sent, arrived) ==
  IF sent = <<>> \/ arrived < 4 + Len(Head(sent)) THEN <<>>
  ELSE <<Head(sent)>> \o WholeFrames(Tail(sent), arrived - (4 + Len(Head(sent))))

RECURSIVE TotalBytes(_)
TotalBytes(sent) == IF sent = <<>> THEN 0 ELSE 4 + Len(Head(sent)) + TotalBytes(Tail(sent))

\* The messages of the payloads that are JSON, in order.
RECURSIVE MessagesOf(_)
MessagesOf(payloads) ==
  IF payloads = <<>> THEN <<>>
  ELSE (IF \E message \in FramedMessages : stringify(message) = Head(payloads)
          THEN <<CHOOSE message \in FramedMessages : stringify(message) = Head(payloads)>>
          ELSE <<>>)
         \o MessagesOf(Tail(payloads))

\* C38: however the concatenated frames are split into chunks, decode has
\* returned exactly the messages of the frames that have arrived whole, in
\* the order sent; a frame whose payload is not JSON is dropped and the
\* frames after it are delivered.
C38_FramesRoundTrip ==
  probe.fn = "MessageFramer" =>
    probe.messages =
      MessagesOf(WholeFrames(probe.sent, TotalBytes(probe.sent) - Len(probe.wire)))

\* A message was delivered that followed a malformed frame and arrived split
\* across chunks.
C38_Witness ==
  /\ probe.fn = "MessageFramer"
  /\ Len(probe.sent) = MaxFrames
  /\ probe.sent[1] \in MalformedPayloads
  /\ probe.wire = <<>>
  /\ Len(probe.messages) = MaxFrames - 1
  /\ probe.messages[1] # probe.messages[2]

(***************************************************************************)
(* Properties of the auto-mix loop                                         *)
(***************************************************************************)

\* A step of a loop that throws starts the 60 s wait and nothing else.
ThrowCoolsDown(l) ==
  mixing[l].pc \in MixSteps /\ mixing'[l].pc \notin MixSteps \union {"withdrawDelay", "nextCycleDelay", "lowBalance"}
    => mixing'[l].pc = "retry" /\ mixing'[l].wait = CoolDown

\* The retry wait ends after its 60 s, in a new iteration.
RetryResumes(l) ==
  mixing[l].pc = "retry" /\ mixing'[l].pc # "retry"
    => mixing[l].wait = 0 /\ mixing'[l].pc = "while"

\* A loop ends only at its while condition, with the flag cleared or the
\* deadline passed.
ExitsOnFlagOrDeadline(l) ==
  mixing[l].pc # "stopped" /\ mixing'[l].pc = "stopped"
    => /\ mixing[l].pc = "while"
       /\ ~isRunning \/ (mixing[l].maxRunTime # 0 /\ mixing[l].elapsed >= mixing[l].maxRunTime)

\* C39: a step of an iteration that fails never ends the loop: the loop waits
\* the 60 s cool-down and begins a new iteration; the loop exits only with
\* the stop flag set or the deadline passed; and once stop() was called a
\* running loop ends.
C39_LoopSurvivesFailuresAndStops ==
  /\ [][\A l \in MixLoops : ThrowCoolsDown(l) /\ RetryResumes(l) /\ ExitsOnFlagOrDeadline(l)]_vars
  /\ \A l \in MixLoops :
       (mixing[l].pc \notin {"none", "stopped"} /\ ~isRunning) ~> (mixing[l].pc = "stopped")

(***************************************************************************)
(* Properties of deposit()                                                 *)
(***************************************************************************)

\* The records of the book and of the RAM cache that belong to a deposit.
BookRecordsOf(code) == {i \in 1..Len(Book) : Book[i].code = code}
RamRecordsOf(code) == {i \in 1..Len(deposits) : deposits[i].nullifier = code}

\* While the proof and the transaction are awaited, the deposit is in neither
\* the book nor the RAM cache.
NothingBeforeTxId(t) ==
  (pc[t] = "d_submit" /\ pc'[t] = "d_submit") =>
    BookRecordsOf(dep[t].code)' = {} /\ RamRecordsOf(dep[t].code)' = {}

\* A deposit whose proof or transaction fails changes nothing.
FailureChangesNothing(t) ==
  (pc[t] = "d_submit" /\ outcome'[t] = "error") =>
    Book' = Book /\ deposits' = deposits /\ added' = added

\* A deposit that returns has appended one record, not withdrawn, to the book
\* and to the RAM cache, and the records of the deposits before it are there.
SuccessAppendsOne(t) ==
  (pc[t] = "d_add" /\ outcome'[t] = "ok") =>
    /\ Cardinality(BookRecordsOf(dep[t].code)) = 1
    /\ \A i \in BookRecordsOf(dep[t].code) : ~Book[i].withdrawn
    /\ Cardinality(RamRecordsOf(dep[t].code)) = 1
    /\ added \subseteq CodesOf(Book)

\* C40: deposit() touches the deposit book and the RAM cache only after the
\* deposit transaction returned its id; a deposit whose proof or transaction
\* fails throws and leaves the book, the RAM cache and the deposit counter as
\* they were; a deposit that succeeds appends exactly one record with
\* withdrawn = false.
C40_DepositAppendsAfterTxId ==
  [][\A t \in Tasks : NothingBeforeTxId(t) /\ FailureChangesNothing(t) /\ SuccessAppendsOne(t)]_vars

(***************************************************************************)
(* Properties of the replica under overlapping calls                       *)
(***************************************************************************)

\* The stored array and root are the Merkle tree of the stored leaves.
Consistent(treeData) ==
  treeData.loaded =>
    /\ treeData.tree = buildTree(NoTree, treeData.leaves).data.tree
    /\ treeData.root = treeData.tree[treeSize - 1]

ReplicaConsistentAtRest ==
  (\A u \in Updaters : updating[u].pc = "idle") => \A c \in Chunks : Consistent(trees[c])

====
